---- MODULE Spec2Model ----
(***************************************************************************)
(* Entity resolution for clinic records: the matcher (clinic_matcher.py),  *)
(* the Yelp ingestion path (collect_yelp_fusion_api_data.py) and the       *)
(* dedup/merge pass (data_cleaner.py).                                     *)
(*                                                                         *)
(* Conventions.  A Python value that may be None is a tuple of length at   *)
(* most one: None is << >> and the value v is << v >>.  A Python str that  *)
(* the code inspects character by character (name, address, phone) is a    *)
(* tuple of one-character strings; a str that is only compared or tested   *)
(* for emptiness (identifiers, postal codes, urls) is a TLA+ string.       *)
(* A dict or an ORM object is a function from its keys to such values.     *)
(* Coordinates are whole metres north and east of a reference point of the *)
(* city, so that the great-circle distance between two records is the      *)
(* planar distance between their offsets.                                  *)
(***************************************************************************)
EXTENDS Integers, Sequences, FiniteSets, TLC

None == << >>
Some(v) == << v >>
Val(x) == x[1]

\* Python truthiness of an optional str / optional number.
TruthyStr(x) == x # None /\ Val(x) # << >>
TruthyTag(x) == x # None /\ Val(x) # ""
TruthyNum(x) == x # None /\ Val(x) # 0

Min(a, b) == IF a <= b THEN a ELSE b
Max(a, b) == IF a >= b THEN a ELSE b

-----------------------------------------------------------------------------
(* Characters                                                              *)

UpperChars == <<"A", "B", "C", "D", "E", "F", "G", "H", "I", "J", "K", "L", "M", "N", "O", "P", "Q", "R", "S", "T", "U", "V", "W", "X", "Y", "Z">>
LowerChars == <<"a", "b", "c", "d", "e", "f", "g", "h", "i", "j", "k", "l", "m", "n", "o", "p", "q", "r", "s", "t", "u", "v", "w", "x", "y", "z">>
DigitChars == <<"0", "1", "2", "3", "4", "5", "6", "7", "8", "9">>

Range(s) == { s[i] : i \in 1..Len(s) }

\* str.lower() on one character
LowerOf == [c \in Range(UpperChars) |->
              LowerChars[CHOOSE i \in 1..Len(UpperChars) : UpperChars[i] = c]]
LowerChar(c) == IF c \in DOMAIN LowerOf THEN LowerOf[c] ELSE c

\* the regular-expression classes \w, \s and \d
WordChars == Range(UpperChars) \cup Range(LowerChars) \cup Range(DigitChars) \cup {"_"}
SpaceChars == {" ", "\t", "\n"}
DigitSet == Range(DigitChars)
IsWordChar(c) == c \in WordChars
IsSpaceChar(c) == c \in SpaceChars
IsDigitChar(c) == c \in DigitSet

\* name.lower()
Lower(s) == [i \in 1..Len(s) |-> LowerChar(s[i])]

\* re.sub(r"[^\w\s]", " ", s)
StripPunctuation(s) ==
    [i \in 1..Len(s) |-> IF IsWordChar(s[i]) \/ IsSpaceChar(s[i]) THEN s[i] ELSE " "]

\* re.sub(r"\D", "", s)
RECURSIVE DigitsOnly(_)
DigitsOnly(s) ==
    IF s = << >> THEN << >>
    ELSE IF IsDigitChar(Head(s)) THEN <<Head(s)>> \o DigitsOnly(Tail(s))
    ELSE DigitsOnly(Tail(s))

\* str.split(): the maximal runs of non-whitespace characters
RECURSIVE SplitWords(_, _, _)
SplitWords(s, cur, acc) ==
    IF s = << >> THEN (IF cur = << >> THEN acc ELSE Append(acc, cur))
    ELSE IF IsSpaceChar(Head(s))
         THEN SplitWords(Tail(s), << >>, IF cur = << >> THEN acc ELSE Append(acc, cur))
         ELSE SplitWords(Tail(s), Append(cur, Head(s)), acc)

Split(s) == SplitWords(s, << >>, << >>)

\* " ".join(words)
RECURSIVE Join(_)
Join(words) ==
    IF words = << >> THEN << >>
    ELSE IF Len(words) = 1 THEN words[1]
    ELSE words[1] \o <<" ">> \o Join(Tail(words))

\* [w for w in words if keep(w)]
RECURSIVE DropNoise(_, _)
DropNoise(words, noise) ==
    IF words = << >> THEN << >>
    ELSE IF Head(words) \in noise THEN DropNoise(Tail(words), noise)
    ELSE <<Head(words)>> \o DropNoise(Tail(words), noise)

-----------------------------------------------------------------------------
(* ClinicMatcher: constants                                                *)

\* thresholds, as percentages and metres
NAME_SIMILARITY_THRESHOLD == 75
COORDINATE_DISTANCE_METERS == 50
ADDRESS_SIMILARITY_THRESHOLD == 80

NOISE_WORDS == {
    <<"c", "l", "i", "n", "i", "c">>, <<"m", "e", "d", "i", "c", "a", "l">>, <<"c", "e", "n", "t", "e", "r">>, <<"h", "e", "a", "l", "t", "h", "c", "a", "r", "e">>, <<"h", "e", "a", "l", "t", "h">>, <<"c", "a", "r", "e">>,
    <<"h", "o", "s", "p", "i", "t", "a", "l">>, <<"g", "r", "o", "u", "p">>, <<"p", "r", "a", "c", "t", "i", "c", "e">>, <<"a", "s", "s", "o", "c", "i", "a", "t", "e", "s">>, <<"p", "h", "y", "s", "i", "c", "i", "a", "n", "s">>,
    <<"l", "l", "c">>, <<"i", "n", "c">>, <<"p", "c">>, <<"m", "d">>, <<"d", "d", "s">>, <<"t", "h", "e">>, <<"o", "f">>, <<"a", "t">>, <<"a", "n", "d">> }

\* key, value pairs of the abbreviation table
ADDRESS_ABBREVIATIONS == {
    <<<<"s", "t", "r", "e", "e", "t">>, <<"s", "t">>>>, <<<<"s", "t", ".">>, <<"s", "t">>>>, <<<<"s", "t", "r">>, <<"s", "t">>>>,
    <<<<"a", "v", "e", "n", "u", "e">>, <<"a", "v", "e">>>>, <<<<"a", "v", "e", ".">>, <<"a", "v", "e">>>>, <<<<"a", "v">>, <<"a", "v", "e">>>>,
    <<<<"b", "o", "u", "l", "e", "v", "a", "r", "d">>, <<"b", "l", "v", "d">>>>, <<<<"b", "l", "v", "d", ".">>, <<"b", "l", "v", "d">>>>,
    <<<<"d", "r", "i", "v", "e">>, <<"d", "r">>>>, <<<<"d", "r", ".">>, <<"d", "r">>>>,
    <<<<"r", "o", "a", "d">>, <<"r", "d">>>>, <<<<"r", "d", ".">>, <<"r", "d">>>>,
    <<<<"l", "a", "n", "e">>, <<"l", "n">>>>, <<<<"l", "n", ".">>, <<"l", "n">>>>,
    <<<<"c", "o", "u", "r", "t">>, <<"c", "t">>>>, <<<<"c", "t", ".">>, <<"c", "t">>>>,
    <<<<"p", "l", "a", "c", "e">>, <<"p", "l">>>>, <<<<"p", "l", ".">>, <<"p", "l">>>>,
    <<<<"n", "o", "r", "t", "h">>, <<"n">>>>, <<<<"n", ".">>, <<"n">>>>,
    <<<<"s", "o", "u", "t", "h">>, <<"s">>>>, <<<<"s", ".">>, <<"s">>>>,
    <<<<"e", "a", "s", "t">>, <<"e">>>>, <<<<"e", ".">>, <<"e">>>>,
    <<<<"w", "e", "s", "t">>, <<"w">>>>, <<<<"w", ".">>, <<"w">>>>,
    <<<<"s", "u", "i", "t", "e">>, <<"s", "t", "e">>>>, <<<<"s", "t", "e", ".">>, <<"s", "t", "e">>>>, <<<<"u", "n", "i", "t">>, <<"s", "t", "e">>>>,
    <<<<"f", "l", "o", "o", "r">>, <<"f", "l">>>>, <<<<"f", "l", ".">>, <<"f", "l">>>>,
    <<<<"a", "p", "a", "r", "t", "m", "e", "n", "t">>, <<"a", "p", "t">>>>, <<<<"a", "p", "t", ".">>, <<"a", "p", "t">>>> }

\* ADDRESS_ABBREVIATIONS.get(word, word)
Abbreviate(word) ==
    IF \E p \in ADDRESS_ABBREVIATIONS : p[1] = word
    THEN (CHOOSE p \in ADDRESS_ABBREVIATIONS : p[1] = word)[2]
    ELSE word

-----------------------------------------------------------------------------
(* ClinicMatcher: normalizers                                              *)

\* normalize_name with the noise words removed before the punctuation
NoiseBeforePunctuation(name) ==
    IF ~TruthyStr(name) THEN << >>
    ELSE Join(Split(StripPunctuation(Join(DropNoise(Split(Lower(Val(name))), NOISE_WORDS)))))

normalize_name(name) ==
    IF ~TruthyStr(name) THEN << >>
    ELSE Join(DropNoise(Split(StripPunctuation(Lower(Val(name)))), NOISE_WORDS))

normalize_address(address) ==
    IF ~TruthyStr(address) THEN << >>
    ELSE LET words == Split(StripPunctuation(Lower(Val(address))))
         IN Join([i \in 1..Len(words) |-> Abbreviate(words[i])])

normalize_phone(phone) ==
    IF ~TruthyStr(phone) THEN << >>
    ELSE LET digits == DigitsOnly(Val(phone))
         IN IF Len(digits) = 11 /\ Head(digits) = "1" THEN Tail(digits) ELSE digits

-----------------------------------------------------------------------------
(* difflib.SequenceMatcher(None, a, b).ratio()                             *)

\* the length of the longest block that starts at a[i] and at b[j]
RECURSIVE BlockSize(_, _, _, _)
BlockSize(a, b, i, j) ==
    IF i > Len(a) \/ j > Len(b) THEN 0
    ELSE IF a[i] # b[j] THEN 0
    ELSE 1 + BlockSize(a, b, i + 1, j + 1)

\* find_longest_match: <<i, j, k>> for the longest block a[i..i+k-1] =
\* b[j..j+k-1], of those the one starting earliest in a, of those the one
\* starting earliest in b; k = 0 when no character is shared
LongestMatch(a, b) ==
    LET starts == (1..Len(a)) \X (1..Len(b))
        sizes == { <<p[1], p[2], BlockSize(a, b, p[1], p[2])>> : p \in starts }
        longest == { t \in sizes : \A u \in sizes : u[3] <= t[3] }
        first_a == { t \in longest : \A u \in longest : t[1] <= u[1] }
    IN CHOOSE t \in first_a : \A u \in first_a : t[2] <= u[2]

\* sum of the sizes of get_matching_blocks(): the longest match, then the
\* pieces to its left and to its right
RECURSIVE MatchingSize(_, _)
MatchingSize(a, b) ==
    IF a = << >> \/ b = << >> THEN 0
    ELSE LET t == LongestMatch(a, b)
         IN IF t[3] = 0 THEN 0
            ELSE t[3]
                 + MatchingSize(SubSeq(a, 1, t[1] - 1), SubSeq(b, 1, t[2] - 1))
                 + MatchingSize(SubSeq(a, t[1] + t[3], Len(a)), SubSeq(b, t[2] + t[3], Len(b)))

\* A similarity in [0, 1] is the fraction num / den
Ratio(a, b) == [num |-> 2 * MatchingSize(a, b), den |-> Len(a) + Len(b)]
ZeroSimilarity == [num |-> 0, den |-> 1]

\* similarity >= percent / 100
SimAtLeast(sim, percent) == sim.num * 100 >= percent * sim.den

-----------------------------------------------------------------------------
(* ClinicMatcher: signals                                                  *)

calculate_name_similarity(name1, name2) ==
    LET norm1 == normalize_name(name1)
        norm2 == normalize_name(name2)
    IN IF norm1 = << >> \/ norm2 = << >> THEN ZeroSimilarity ELSE Ratio(norm1, norm2)

calculate_address_similarity(addr1, addr2) ==
    LET norm1 == normalize_address(addr1)
        norm2 == normalize_address(addr2)
    IN IF norm1 = << >> \/ norm2 = << >> THEN ZeroSimilarity ELSE Ratio(norm1, norm2)

\* is_phone_match without its "if not norm1 or not norm2: return False"
PhonesEqual(phone1, phone2) == normalize_phone(phone1) = normalize_phone(phone2)

is_phone_match(phone1, phone2) ==
    LET norm1 == normalize_phone(phone1)
        norm2 == normalize_phone(phone2)
    IN IF norm1 = << >> \/ norm2 = << >> THEN FALSE ELSE norm1 = norm2

\* the least d with d * d >= n, found by bisection on lo < d <= hi
RECURSIVE CeilSqrtIn(_, _, _)
CeilSqrtIn(n, lo, hi) ==
    IF hi - lo <= 1 THEN hi
    ELSE LET mid == (lo + hi) \div 2
         IN IF mid * mid >= n THEN CeilSqrtIn(n, lo, mid) ELSE CeilSqrtIn(n, mid, hi)

CeilSqrt(n) == IF n = 0 THEN 0 ELSE CeilSqrtIn(n, 0, Min(n, 46340))

\* A distance is float('inf') or a number of metres (rounded up to a whole
\* metre, which leaves every comparison with a whole number of metres exact)
Infinity == [inf |-> TRUE, m |-> 0]
Meters(d) == [inf |-> FALSE, m |-> d]
DistAtMost(d, limit) == ~d.inf /\ d.m <= limit

calculate_distance_meters(lat1, lng1, lat2, lng2) ==
    IF None \in {lat1, lng1, lat2, lng2} THEN Infinity
    ELSE LET delta_lat == Val(lat2) - Val(lat1)
             delta_lng == Val(lng2) - Val(lng1)
         IN Meters(CeilSqrt(delta_lat * delta_lat + delta_lng * delta_lng))

-----------------------------------------------------------------------------
(* ClinicMatcher.calculate_match_score                                     *)

\* get_value(obj, key, default) for ORM objects and dicts alike
get_value(obj, key, default) == IF key \in DOMAIN obj THEN obj[key] ELSE default

\* dict.get(key, default)
DictGet(d, key, default) == IF key \in DOMAIN d THEN d[key] ELSE default

\* The result dict from the four measurements: score += 40, 35, 15, 10 and
\* reasons.append(...) for each signal in turn; phone_again is the second
\* call of is_phone_match, made for the details
MatchResult(phone_match, distance, name_sim, addr_sim, phone_again) ==
    LET geo_hit == DistAtMost(distance, COORDINATE_DISTANCE_METERS)
        name_hit == SimAtLeast(name_sim, NAME_SIMILARITY_THRESHOLD)
        addr_hit == SimAtLeast(addr_sim, ADDRESS_SIMILARITY_THRESHOLD)
    IN [ score |-> (IF phone_match THEN 40 ELSE 0) + (IF geo_hit THEN 35 ELSE 0)
                   + (IF name_hit THEN 15 ELSE 0) + (IF addr_hit THEN 10 ELSE 0),
         match_reasons |-> (IF phone_match THEN <<"Phone match">> ELSE << >>)
                           \o (IF geo_hit THEN <<"Location match">> ELSE << >>)
                           \o (IF name_hit THEN <<"Name match">> ELSE << >>)
                           \o (IF addr_hit THEN <<"Address match">> ELSE << >>),
         details |-> [ name_similarity |-> name_sim,
                       address_similarity |-> addr_sim,
                       distance_meters |-> distance,
                       phone_match |-> phone_again ] ]

\* Decide with the threshold excluded: is_match = score > 50
DecideStrict(r) ==
    [ is_match |-> r.score > 50,
      confidence |-> Min(r.score, 100),
      score |-> r.score,
      match_reasons |-> r.match_reasons,
      details |-> r.details ]

\* Decide with the weight of the phone signal as threshold: is_match = score >= 40
DecideAtForty(r) ==
    [ is_match |-> r.score >= 40,
      confidence |-> Min(r.score, 100),
      score |-> r.score,
      match_reasons |-> r.match_reasons,
      details |-> r.details ]

\* is_match = score >= 50; confidence = min(score / 100, 1.0), in hundredths
Decide(r) ==
    [ is_match |-> r.score >= 50,
      confidence |-> Min(r.score, 100),
      score |-> r.score,
      match_reasons |-> r.match_reasons,
      details |-> r.details ]

calculate_match_score(clinic1, clinic2) ==
    Decide(MatchResult(
        is_phone_match(get_value(clinic1, "phone", Some(<< >>)),
                       get_value(clinic2, "phone", Some(<< >>))),
        calculate_distance_meters(get_value(clinic1, "latitude", None),
                                  get_value(clinic1, "longitude", None),
                                  get_value(clinic2, "latitude", None),
                                  get_value(clinic2, "longitude", None)),
        calculate_name_similarity(get_value(clinic1, "name", Some(<< >>)),
                                  get_value(clinic2, "name", Some(<< >>))),
        calculate_address_similarity(get_value(clinic1, "address", Some(<< >>)),
                                     get_value(clinic2, "address", Some(<< >>))),
        is_phone_match(get_value(clinic1, "phone", Some(<< >>)),
                       get_value(clinic2, "phone", Some(<< >>)))))

-----------------------------------------------------------------------------
(* ClinicMatcher.find_matching_clinic                                      *)

\* Better with >= for >: of two records with the best score the later wins
BetterOrLast(best, clinic, result) ==
    IF result.is_match /\ result.score >= (IF best = << >> THEN 0 ELSE best[2].score)
    THEN <<clinic, result>>
    ELSE best

\* if result['is_match'] and result['score'] > best_score: the new best
\* (best is << >> until a record matched, then << clinic, result >>)
Better(best, clinic, result) ==
    IF result.is_match /\ result.score > (IF best = << >> THEN 0 ELSE best[2].score)
    THEN <<clinic, result>>
    ELSE best

\* the loop over existing_clinics
RECURSIVE find_matching_loop(_, _, _, _, _)
find_matching_loop(best, rest, new_clinic_data, new_zip, same_zip_only) ==
    IF rest = << >> THEN best
    ELSE IF same_zip_only /\ TruthyTag(new_zip) /\ Head(rest).zip_code # new_zip
         THEN find_matching_loop(best, Tail(rest), new_clinic_data, new_zip, same_zip_only)
         ELSE find_matching_loop(
                  Better(best, Head(rest), calculate_match_score(new_clinic_data, Head(rest))),
                  Tail(rest), new_clinic_data, new_zip, same_zip_only)

\* new_clinic_data.get('zip_code') or new_clinic_data.get('location', {}).get('zip_code')
NewZip(new_clinic_data) ==
    IF TruthyTag(DictGet(new_clinic_data, "zip_code", None))
    THEN DictGet(new_clinic_data, "zip_code", None)
    ELSE DictGet(DictGet(new_clinic_data, "location", << >>), "zip_code", None)

\* returns << >> for (None, None) and << clinic, result >> otherwise
find_matching_clinic(new_clinic_data, existing_clinics, same_zip_only) ==
    find_matching_loop(<< >>, existing_clinics, new_clinic_data,
                       NewZip(new_clinic_data), same_zip_only)

-----------------------------------------------------------------------------
(* Inputs of the matcher                                                   *)

MaxPool == 3

Clinic1Inputs ==
    { [name |-> n, address |-> a, phone |-> p, latitude |-> c[1], longitude |-> c[2]] :
        n \in {Some(<<"R", "u", "s", "h">>), Some(<<"T", "h", "e", " ", "C", "l", "i", "n", "i", "c">>), None},
        a \in {Some(<<"a", "b", " ", "S", "t", ".">>), Some(<<>>)},
        p \in {Some(<<"5", "5", "5", "-", "1", "0", "0", "0">>), Some(<<"+", "1", " ", "5", "5", "5", " ", "1", "0", "0", " ", "2", "0", "0", "0">>), Some(<<"n", "/", "a">>)},
        c \in {<<Some(100), Some(100)>>, <<Some(100), None>>} }

Clinic2Inputs ==
    { [name |-> n, address |-> a, phone |-> p, latitude |-> c[1], longitude |-> c[2]] :
        n \in {None, Some(<<"T", "h", "e", " ", "C", "l", "i", "n", "i", "c">>), Some(<<"R", "u", "s", "h">>), Some(<<"r", "u", "s", "k">>), Some(<<"R", "u", "b", "y", " ", "I", "n", "c", ".">>)},
        a \in {None, Some(<<"a", "c", " ", "S", "t", "r", "e", "e", "t">>), Some(<<"x", "y", " ", "s", "t">>)},
        p \in {None, Some(<<"(", "5", "5", "5", ")", "1", "0", "0", "0">>), Some(<<"5", "5", "5", ".", "1", "0", "0", ".", "2", "0", "0", "0">>), Some(<<"5", "5", "5", "-", "2", "0", "0", "0">>)},
        c \in {<<None, None>>, <<Some(130), Some(140)>>, <<Some(100), Some(151)>>} }

\* dicts that lack keys altogether
PartialDicts ==
    { [name |-> Some(<<"R", "u", "s", "h">>)],
      [phone |-> Some(<<"5", "5", "5", "-", "1", "0", "0", "0">>), latitude |-> Some(100)],
      [zip_code |-> Some("60611")] }

ScoreCalls ==
    { [fn |-> "calculate_match_score", clinic1 |-> c1, clinic2 |-> c2] :
        c1 \in Clinic1Inputs \cup PartialDicts, c2 \in Clinic2Inputs }

PoolRecord(id, n, a, p, lat, lng, z) ==
    [id |-> id, name |-> n, address |-> a, phone |-> p,
     latitude |-> lat, longitude |-> lng, zip_code |-> z]

PoolRecords ==
    { PoolRecord(1, Some(<<"R", "u", "s", "h">>), Some(<<"a", "b", " ", "S", "t", ".">>), Some(<<"5", "5", "5", "-", "1", "0", "0", "0">>), Some(100), Some(100), Some("60611")),
      PoolRecord(2, Some(<<"L", "a", "k", "e">>), Some(<<"a", "c", " ", "S", "t", "r", "e", "e", "t">>), Some(<<"(", "5", "5", "5", ")", "1", "0", "0", "0">>), None, None, Some("60612")),
      PoolRecord(3, Some(<<"r", "u", "s", "k">>), None, None, Some(130), Some(140), Some("60611")),
      PoolRecord(4, Some(<<"R", "u", "s", "h", " ", "C", "l", "i", "n", "i", "c">>), Some(<<"x", "y", " ", "s", "t">>), Some(<<"5", "5", "5", "-", "2", "0", "0", "0">>), Some(100), Some(151), Some("60611")),
      PoolRecord(5, Some(<<"R", "u", "s", "h">>), Some(<<"a", "b", " ", "s", "t">>), Some(<<"5", "5", "5", " ", "1", "0", "0", "0">>), Some(100), Some(100), None) }

NewClinicInputs ==
    LET base == [name |-> Some(<<"R", "u", "s", "h">>), address |-> Some(<<"a", "b", " ", "S", "t", ".">>),
                 phone |-> Some(<<"5", "5", "5", "-", "1", "0", "0", "0">>), latitude |-> Some(100), longitude |-> Some(100)]
    IN { base @@ [zip_code |-> Some("60611")],
         base @@ [zip_code |-> Some("60612")],
         base @@ [zip_code |-> None, location |-> [zip_code |-> Some("60612")]],
         base @@ [zip_code |-> Some("")],
         base }

\* the sequences without repetition of at most n elements of S
RECURSIVE SeqsUpTo(_, _)
SeqsUpTo(S, n) ==
    IF n = 0 THEN { << >> }
    ELSE LET shorter == SeqsUpTo(S, n - 1)
         IN shorter \cup { Append(s, x) : s \in shorter, x \in S } 

Distinct(s) == \A i, j \in 1..Len(s) : i # j => s[i] # s[j]

FindCalls ==
    { [fn |-> "find_matching_clinic", new_clinic_data |-> d,
       existing_clinics |-> pool, same_zip_only |-> z] :
        d \in NewClinicInputs,
        pool \in { s \in SeqsUpTo(PoolRecords, MaxPool) : Distinct(s) },
        z \in BOOLEAN }

-----------------------------------------------------------------------------
(* The store: Clinic and Review rows                                       *)

MaxClinics == 3

\* A Clinic row.  Ratings are in tenths of a star, combined_rating, which
\* DataEnrichment rounds to two decimals, in hundredths.  Columns that no
\* condition of the modelled code reads (city, state, clinic_type,
\* categories, data_quality_score, last_updated) are not carried.
Clinic(id, name, address, zip, phone, website, lat, lng, gid, grating, gcount, yid, yrating, ycount) ==
    [ id |-> id, name |-> name, address |-> address, zip_code |-> zip,
      phone |-> phone, website |-> website, latitude |-> lat, longitude |-> lng,
      google_place_id |-> gid, google_rating |-> grating,
      google_review_count |-> gcount, google_price_level |-> None,
      yelp_business_id |-> yid, yelp_rating |-> yrating,
      yelp_review_count |-> ycount, yelp_price_level |-> None,
      has_google_data |-> None, has_yelp_data |-> None, data_source |-> None,
      combined_rating |-> None, combined_review_count |-> None,
      rating_category |-> None, review_volume_category |-> None,
      is_active |-> TRUE ]

\* What the Yelp API returns for a business (get_business_details)
YelpBusiness(id, name, address1, zip, phone, lat, lng, rating, count, url) ==
    [ id |-> Some(id), name |-> name,
      location |-> [address1 |-> address1, zip_code |-> zip],
      phone |-> phone,
      coordinates |-> [latitude |-> lat, longitude |-> lng],
      rating |-> rating, review_count |-> count, price |-> Some("$$"), url |-> url ]

\* Two Yelp listings of one clinic, the second filed under another postal
\* code and without coordinates, and the listing of another clinic
YelpBusinesses ==
    { YelpBusiness("Y1", Some(<<"R", "u", "s", "h", " ", "C", "l", "i", "n", "i", "c">>), Some(<<"a", "b", " ", "s", "t">>), Some("60611"),
                   Some(<<"(", "5", "5", "5", ")", "1", "0", "0", "0">>), Some(100), Some(100), Some(40), Some(10), Some("y1.example")),
      YelpBusiness("Y2", Some(<<"R", "u", "s", "h">>), None, Some("60612"),
                   Some(<<"5", "5", "5", " ", "1", "0", "0", "0">>), None, None, Some(35), Some(20), Some("y2.example")),
      YelpBusiness("Y3", Some(<<"L", "a", "k", "e">>), Some(<<"x", "y", " ", "s", "t">>), Some("60612"),
                   Some(<<"5", "5", "5", "-", "2", "0", "0", "0">>), Some(2000), Some(2000), None, None, None) }

\* The reviews the Yelp API holds for a business (get_reviews returns some of them)
YelpReviews(business_id) == { <<"yelp", Val(business_id)>> }

\* The rows the Google collection left behind: two Google listings of the
\* clinic that Y1 and Y2 list, the second a sparse one
GoogleClinic(id) ==
    IF id = 1
    THEN Clinic(1, Some(<<"R", "u", "s", "h">>), Some(<<"a", "b", " ", "S", "t", ".">>), Some("60611"), Some(<<"5", "5", "5", "-", "1", "0", "0", "0">>),
                Some("g1.example"), Some(100), Some(100),
                Some("G1"), Some(45), Some(120), None, None, None)
    ELSE Clinic(id, Some(<<"r", "u", "s", "k">>), None, None, None,
                None, Some(130), Some(140),
                Some("G2"), None, None, None, None, None)

InitialStores ==
    { [clinics |-> << >>, reviews |-> << >>],
      [clinics |-> <<GoogleClinic(1)>>, reviews |-> (<<"google", "a">> :> 1)],
      [clinics |-> <<GoogleClinic(1), GoogleClinic(2)>>,
       reviews |-> (<<"google", "a">> :> 1) @@ (<<"google", "b">> :> 2)] }

-----------------------------------------------------------------------------
VARIABLES
    call,               \* the matcher call under way: its function and arguments
    ret,                \* None until the call returned, then Some(result)
    clinics,            \* the Clinic table: clinics[i] is the row with id i
    reviews,            \* the Review table: review_id -> clinic_id
    pc,                 \* where the single thread of control is
    pending,            \* the clinic match_or_create_clinic returned, for save_reviews
    potential_matches,  \* match_or_create_clinic: ids of its candidate pool
    merge_groups,       \* find_and_merge_duplicates: the groups still to merge
    ranked,             \* _merge_clinic_group: ids of the group, sorted
    dup_index,          \* _merge_clinic_group: position in ranked of the current dup
    pre,                \* the tables and the group as _merge_clinic_group found them
    duplicates_found,   \* DataCleaner.duplicates_found
    records_merged,     \* DataCleaner.records_merged
    stats,              \* an imputation run: its stats dict, None outside a run
    committed,          \* an imputation run: the rows as the database holds them
    added               \* the collector's log: business id -> its "Added clinic from Yelp" lines

matchVars == <<call, ret>>
storeVars == <<clinics, reviews, pc, pending, potential_matches, merge_groups,
               ranked, dup_index, pre, duplicates_found, records_merged>>
imputeVars == <<stats, committed>>
collectorVars == <<added>>
vars == <<call, ret, clinics, reviews, pc, pending, potential_matches, merge_groups,
          ranked, dup_index, pre, duplicates_found, records_merged, stats, committed,
          added>>

NoCall == [fn |-> "none"]

\* DataCleaner.__init__ and a store with no operation under way
InitControl ==
    /\ pc = "idle"
    /\ pending = None
    /\ potential_matches = << >>
    /\ merge_groups = << >>
    /\ ranked = << >>
    /\ dup_index = 0
    /\ pre = None
    /\ duplicates_found = 0
    /\ records_merged = 0
    /\ stats = None
    /\ committed = << >>
    /\ added = << >>

-----------------------------------------------------------------------------
(* The matcher applied to one input                                        *)

InitMatch ==
    /\ call \in ScoreCalls \cup FindCalls
    /\ ret = None
    /\ clinics = << >>
    /\ reviews = << >>
    /\ InitControl

CallScore ==
    /\ call.fn = "calculate_match_score"
    /\ ret = None
    /\ ret' = Some(calculate_match_score(call.clinic1, call.clinic2))
    /\ UNCHANGED call
    /\ UNCHANGED storeVars
    /\ UNCHANGED imputeVars
    /\ UNCHANGED collectorVars

CallFind ==
    /\ call.fn = "find_matching_clinic"
    /\ ret = None
    /\ ret' = Some(find_matching_clinic(call.new_clinic_data, call.existing_clinics,
                                        call.same_zip_only))
    /\ UNCHANGED call
    /\ UNCHANGED storeVars
    /\ UNCHANGED imputeVars
    /\ UNCHANGED collectorVars

NextMatch == CallScore \/ CallFind

SpecMatch == InitMatch /\ [][NextMatch]_vars

-----------------------------------------------------------------------------
(* normalize_name applied to one input                                     *)

MaxNameLen == 5

\* Letters that spell the noise words "at" and "of" in either case, a
\* letter of no noise word, a space and two punctuation marks
NameChars == {"a", "t", "A", "o", "f", "x", " ", "-", "."}

\* None, the empty string and every string of at most MaxNameLen characters
Names ==
    {None} \cup { Some(n) : n \in UNION { [1..k -> NameChars] : k \in 0..MaxNameLen } }

InitNormalize ==
    /\ \E name \in Names : call = [fn |-> "normalize_name", name |-> name]
    /\ ret = None
    /\ clinics = << >>
    /\ reviews = << >>
    /\ InitControl

CallNormalizeName ==
    /\ call.fn = "normalize_name"
    /\ ret = None
    /\ ret' = Some(normalize_name(call.name))
    /\ UNCHANGED call
    /\ UNCHANGED storeVars
    /\ UNCHANGED imputeVars
    /\ UNCHANGED collectorVars

NextNormalize == CallNormalizeName

SpecNormalize == InitNormalize /\ [][NextNormalize]_vars

-----------------------------------------------------------------------------
(* Properties of the matcher                                               *)

Scored == call.fn = "calculate_match_score" /\ ret # None
Searched == call.fn = "find_matching_clinic" /\ ret # None

Fired(reasons, tag) == \E k \in 1..Len(reasons) : reasons[k] = tag

Points(b, weight) == IF b THEN weight ELSE 0

ScoreAt(i) == calculate_match_score(call.new_clinic_data, call.existing_clinics[i])

\* the record at position i is the first of the positions idx with the
\* highest score among those that clear the threshold
BestAmong(idx, i) ==
    /\ i \in idx
    /\ ScoreAt(i).score >= 50
    /\ \A j \in idx : ScoreAt(j).score >= 50 =>
         /\ ScoreAt(j).score <= ScoreAt(i).score
         /\ j < i => ScoreAt(j).score < ScoreAt(i).score

\* what find_matching_clinic returned is the best of the positions idx, and
\* (None, None) exactly when none of them clears the threshold
ReturnsBestAmong(idx) ==
    IF \E i \in idx : ScoreAt(i).score >= 50
    THEN \E i \in idx :
           /\ BestAmong(idx, i)
           /\ Val(ret) = <<call.existing_clinics[i], ScoreAt(i)>>
    ELSE Val(ret) = << >>

\* the positions the ZIP filter lets through: all of them unless
\* same_zip_only is set and the candidate has a ZIP (its zip_code, or else
\* its location's zip_code), then those whose zip_code equals it
PassesZipFilter ==
    { i \in 1..Len(call.existing_clinics) :
        \/ ~call.same_zip_only
        \/ ~TruthyTag(NewZip(call.new_clinic_data))
        \/ call.existing_clinics[i].zip_code = NewZip(call.new_clinic_data) }

\* C27: calculate_match_score reports is_match only if at least two of the
\* four signals (phone, geography, name, address) fired; a phone match alone
\* scores 40 and is not a match, and name and address together score 25 and
\* are not a match.
C27_NoSingleSignalMatches ==
    Scored =>
      /\ Val(ret).is_match => Len(Val(ret).match_reasons) >= 2
      /\ Val(ret).match_reasons = <<"Phone match">> =>
            Val(ret).score = 40 /\ ~Val(ret).is_match
      /\ Val(ret).match_reasons = <<"Name match", "Address match">> =>
            Val(ret).score = 25 /\ ~Val(ret).is_match

\* two records that share the phone number and nothing else were scored
C27_PhoneAlone ==
    /\ Scored
    /\ Val(ret).match_reasons = <<"Phone match">>
    /\ Val(ret).details.phone_match

\* C7 as stated: find_matching_clinic scores the candidate against every
\* record of the pool and returns the highest-scoring one that clears the
\* threshold, the first in pool order on ties, and (None, None) exactly
\* when no record of the pool clears it.
C7_BestOfWholePool ==
    Searched => ReturnsBestAmong(1..Len(call.existing_clinics))

\* C7: find_matching_clinic scores the candidate against every record of
\* the pool that the ZIP filter lets through and returns the highest-scoring
\* of these that clears the threshold, the first in pool order on ties, and
\* (None, None) exactly when none of these clears it.
C7_BestOfFilteredPool ==
    Searched => ReturnsBestAmong(PassesZipFilter)

\* the filter kept back a record that outscores the one returned
C7_FilteredOutBetter ==
    /\ Searched
    /\ Val(ret) # << >>
    /\ \E i \in 1..Len(call.existing_clinics) :
         /\ i \notin PassesZipFilter
         /\ ScoreAt(i).score > Val(ret)[2].score

\* s is None, empty, or normalizes to nothing
NoName(s) == ~TruthyStr(s) \/ normalize_name(s) = << >>
NoAddress(s) == ~TruthyStr(s) \/ normalize_address(s) = << >>
NoPhone(s) == ~TruthyStr(s) \/ normalize_phone(s) = << >>

NothingPresent(c) ==
    /\ NoName(get_value(c, "name", None))
    /\ NoAddress(get_value(c, "address", None))
    /\ NoPhone(get_value(c, "phone", None))
    /\ get_value(c, "latitude", None) = None \/ get_value(c, "longitude", None) = None

\* C8: a signal whose input is absent on either side does not fire and adds
\* nothing to the score: no phone match when a phone is absent or has no
\* digits, similarity 0 when a name or an address is absent or normalizes to
\* nothing, distance infinity when one of the four coordinates is missing;
\* the score is the sum of the weights of the signals that fired, so a
\* record with nothing present scores 0 against any other and never matches.
C8_AbsenceNeverMatches ==
    Scored =>
      /\ (\E c \in {call.clinic1, call.clinic2} : NoPhone(get_value(c, "phone", None)))
           => /\ ~Val(ret).details.phone_match
              /\ ~Fired(Val(ret).match_reasons, "Phone match")
      /\ (\E c \in {call.clinic1, call.clinic2} : NoName(get_value(c, "name", None)))
           => /\ Val(ret).details.name_similarity.num = 0
              /\ ~Fired(Val(ret).match_reasons, "Name match")
      /\ (\E c \in {call.clinic1, call.clinic2} : NoAddress(get_value(c, "address", None)))
           => /\ Val(ret).details.address_similarity.num = 0
              /\ ~Fired(Val(ret).match_reasons, "Address match")
      /\ (\E c \in {call.clinic1, call.clinic2} :
            \E key \in {"latitude", "longitude"} : get_value(c, key, None) = None)
           => /\ Val(ret).details.distance_meters.inf
              /\ ~Fired(Val(ret).match_reasons, "Location match")
      /\ Val(ret).score =
             Points(Fired(Val(ret).match_reasons, "Phone match"), 40)
           + Points(Fired(Val(ret).match_reasons, "Location match"), 35)
           + Points(Fired(Val(ret).match_reasons, "Name match"), 15)
           + Points(Fired(Val(ret).match_reasons, "Address match"), 10)
      /\ (NothingPresent(call.clinic1) \/ NothingPresent(call.clinic2))
           => Val(ret).score = 0 /\ ~Val(ret).is_match

\* a record with nothing present, scored against one whose phone is a
\* string without digits and whose name and coordinates are there
C8_NothingAgainstSomething ==
    /\ Scored
    /\ NothingPresent(call.clinic2)
    /\ TruthyStr(get_value(call.clinic1, "phone", None))
    /\ normalize_phone(get_value(call.clinic1, "phone", None)) = << >>
    /\ ~NoName(get_value(call.clinic1, "name", None))
    /\ get_value(call.clinic1, "latitude", None) # None
    /\ get_value(call.clinic1, "longitude", None) # None
    /\ Val(ret).score = 0

-----------------------------------------------------------------------------
(* YelpCollector.match_or_create_clinic and save_reviews                   *)

\* every order in which a query may return the rows of S
RECURSIVE Orders(_)
Orders(S) ==
    IF S = {} THEN { << >> }
    ELSE UNION { { <<x>> \o s : s \in Orders(S \ {x}) } : x \in S }

\* no operation is under way: the collector or the cleaner may be run
Ready == pc \in {"idle", "merged"} /\ merge_groups = << >>

\* within 0.005 degrees of latitude and of longitude, in metres
NEARBY_NORTH_METERS == 556
NEARBY_EAST_METERS == 414

\* Step 1, the row holds the Yelp id already: refresh its Yelp rating
UpdateYelpClinic(clinic, business_data) ==
    [clinic EXCEPT !.yelp_rating = business_data.rating,
                   !.yelp_review_count = business_data.review_count,
                   !.yelp_price_level = business_data.price]

\* Step 2, a row matched: attach the Yelp listing to it and fill its gaps
MergeYelpIntoClinic(clinic, business_data) ==
    LET c1 == [clinic EXCEPT !.yelp_business_id = business_data.id,
                             !.yelp_rating = business_data.rating,
                             !.yelp_review_count = business_data.review_count,
                             !.yelp_price_level = business_data.price]
        c2 == IF ~TruthyNum(c1.latitude)
              THEN [c1 EXCEPT !.latitude = business_data.coordinates.latitude] ELSE c1
        c3 == IF ~TruthyNum(c2.longitude)
              THEN [c2 EXCEPT !.longitude = business_data.coordinates.longitude] ELSE c2
        c4 == IF ~TruthyStr(c3.phone) THEN [c3 EXCEPT !.phone = business_data.phone] ELSE c3
    IN IF ~TruthyTag(c4.website) THEN [c4 EXCEPT !.website = business_data.url] ELSE c4

\* no row matched: Clinic(yelp_business_id=..., ..., is_active=True)
NewYelpClinic(id, business_data) ==
    [ Clinic(id, business_data.name, business_data.location.address1,
             business_data.location.zip_code, business_data.phone, business_data.url,
             business_data.coordinates.latitude, business_data.coordinates.longitude,
             None, None, None,
             business_data.id, business_data.rating, business_data.review_count)
      EXCEPT !.yelp_price_level = business_data.price ]

\* rows without a Yelp id in the same postal code
ZipCandidates(zip_code) ==
    { i \in 1..Len(clinics) :
        clinics[i].yelp_business_id = None /\ clinics[i].zip_code = zip_code }

\* rows without a Yelp id within the bounding box around (lat, lng)
NearbyCandidates(lat, lng) ==
    { i \in 1..Len(clinics) :
        /\ clinics[i].yelp_business_id = None
        /\ clinics[i].latitude # None
        /\ clinics[i].longitude # None
        /\ Val(lat) - NEARBY_NORTH_METERS <= Val(clinics[i].latitude)
        /\ Val(clinics[i].latitude) <= Val(lat) + NEARBY_NORTH_METERS
        /\ Val(lng) - NEARBY_EAST_METERS <= Val(clinics[i].longitude)
        /\ Val(clinics[i].longitude) <= Val(lng) + NEARBY_EAST_METERS }

\* logger.info(f"{action} clinic from Yelp: ...") with action "Added"
LogAdded(log, business_id) ==
    IF business_id \in DOMAIN log
    THEN [log EXCEPT ![business_id] = @ + 1]
    ELSE log @@ (business_id :> 1)

match_or_create_clinic(business_data, max_rows) ==
    LET business_id == business_data.id
        location == business_data.location
        coordinates == business_data.coordinates
        exact == { i \in 1..Len(clinics) : clinics[i].yelp_business_id = business_id }
        new_clinic_data == [ name |-> business_data.name,
                             address |-> location.address1,
                             phone |-> business_data.phone,
                             latitude |-> coordinates.latitude,
                             longitude |-> coordinates.longitude,
                             zip_code |-> location.zip_code ]
        by_zip == ZipCandidates(location.zip_code)
        nearby == IF TruthyNum(coordinates.latitude) /\ TruthyNum(coordinates.longitude)
                  THEN NearbyCandidates(coordinates.latitude, coordinates.longitude) \ by_zip
                  ELSE {}
    IN /\ Ready
       /\ IF exact # {}
          THEN \E i \in exact :
                 /\ clinics' = [clinics EXCEPT ![i] = UpdateYelpClinic(clinics[i], business_data)]
                 /\ pending' = Some([clinic_id |-> i, business_id |-> business_id])
                 /\ UNCHANGED <<potential_matches, added>>
          ELSE \E zip_order \in Orders(by_zip), near_order \in Orders(nearby) :
                 LET pool == zip_order \o near_order
                     found == find_matching_clinic(
                                  new_clinic_data,
                                  [k \in 1..Len(pool) |-> clinics[pool[k]]], FALSE)
                 IN /\ potential_matches' = pool
                    /\ IF found # << >>
                       THEN /\ clinics' = [clinics EXCEPT ![found[1].id] =
                                             MergeYelpIntoClinic(clinics[found[1].id], business_data)]
                            /\ pending' = Some([clinic_id |-> found[1].id,
                                                business_id |-> business_id])
                            /\ UNCHANGED added
                       ELSE /\ Len(clinics) < max_rows
                            /\ clinics' = Append(clinics,
                                             NewYelpClinic(Len(clinics) + 1, business_data))
                            /\ pending' = Some([clinic_id |-> Len(clinics) + 1,
                                                business_id |-> business_id])
                            /\ added' = LogAdded(added, Val(business_id))
       /\ pc' = "save_reviews"
       /\ UNCHANGED <<reviews, merge_groups, ranked, dup_index, pre,
                      duplicates_found, records_merged>>
       /\ UNCHANGED matchVars
       /\ UNCHANGED imputeVars

MatchOrCreate ==
    \E business_data \in YelpBusinesses : match_or_create_clinic(business_data, MaxClinics)

\* save_reviews(clinic.id, business_id): a Review row for each review of the
\* API's answer that the table does not hold yet
save_reviews(clinic_id, business_id, reviews_data) ==
    /\ reviews' = [ r \in DOMAIN reviews \cup reviews_data |->
                      IF r \in DOMAIN reviews THEN reviews[r] ELSE clinic_id ]
    /\ pc' = "idle"
    /\ pending' = None
    /\ potential_matches' = << >>
    /\ UNCHANGED <<clinics, merge_groups, ranked, dup_index, pre,
                   duplicates_found, records_merged>>
    /\ UNCHANGED matchVars
    /\ UNCHANGED imputeVars
    /\ UNCHANGED collectorVars

SaveReviews ==
    /\ pc = "save_reviews"
    /\ \E reviews_data \in SUBSET YelpReviews(Val(pending).business_id) :
         save_reviews(Val(pending).clinic_id, Val(pending).business_id, reviews_data)

-----------------------------------------------------------------------------
(* DataCleaner.find_and_merge_duplicates: grouping                         *)

\* the inner loop comparing clinic2 with every row of the group so far
\* instead of with clinic1
RECURSIVE GroupWithAnyMember(_, _, _, _)
GroupWithAnyMember(clinic1, rest, processed, group) ==
    IF rest = << >> THEN [group |-> group, processed |-> processed]
    ELSE LET clinic2 == Head(rest)
         IN IF clinic2 \in processed
            THEN GroupWithAnyMember(clinic1, Tail(rest), processed, group)
            ELSE IF \E m \in Range(group) :
                      calculate_match_score(clinics[m], clinics[clinic2]).is_match
                 THEN GroupWithAnyMember(clinic1, Tail(rest), processed \cup {clinic2},
                                         Append(group, clinic2))
                 ELSE GroupWithAnyMember(clinic1, Tail(rest), processed, group)

\* the inner loop over all_clinics[i + 1:]: the rows after the seed that are
\* not grouped yet and match the seed
RECURSIVE GroupWith(_, _, _, _)
GroupWith(clinic1, rest, processed, group) ==
    IF rest = << >> THEN [group |-> group, processed |-> processed]
    ELSE LET clinic2 == Head(rest)
         IN IF clinic2 \in processed
            THEN GroupWith(clinic1, Tail(rest), processed, group)
            ELSE IF calculate_match_score(clinics[clinic1], clinics[clinic2]).is_match
                 THEN GroupWith(clinic1, Tail(rest), processed \cup {clinic2},
                                Append(group, clinic2))
                 ELSE GroupWith(clinic1, Tail(rest), processed, group)

\* the outer loop without "if clinic1.id in processed_ids: continue"
RECURSIVE GroupsFromEveryRow(_, _, _)
GroupsFromEveryRow(all_clinics, i, processed) ==
    IF i > Len(all_clinics) THEN << >>
    ELSE LET g == GroupWith(all_clinics[i], SubSeq(all_clinics, i + 1, Len(all_clinics)),
                            processed \cup {all_clinics[i]}, <<all_clinics[i]>>)
         IN <<g.group>> \o GroupsFromEveryRow(all_clinics, i + 1, g.processed)

\* the outer loop: every group, those of one row included, in the order built
RECURSIVE Groups(_, _, _)
Groups(all_clinics, i, processed) ==
    IF i > Len(all_clinics) THEN << >>
    ELSE IF all_clinics[i] \in processed THEN Groups(all_clinics, i + 1, processed)
    ELSE LET g == GroupWith(all_clinics[i], SubSeq(all_clinics, i + 1, Len(all_clinics)),
                            processed \cup {all_clinics[i]}, <<all_clinics[i]>>)
         IN <<g.group>> \o Groups(all_clinics, i + 1, g.processed)

\* if len(group) > 1: merge_groups.append(group)
RECURSIVE MergeGroups(_)
MergeGroups(groups) ==
    IF groups = << >> THEN << >>
    ELSE IF Len(Head(groups)) > 1 THEN <<Head(groups)>> \o MergeGroups(Tail(groups))
    ELSE MergeGroups(Tail(groups))

\* one count for every group of two rows or more instead of one for every
\* row appended
RECURSIVE DuplicateGroupsIn(_)
DuplicateGroupsIn(groups) ==
    IF groups = << >> THEN 0
    ELSE (IF Len(Head(groups)) > 1 THEN 1 ELSE 0) + DuplicateGroupsIn(Tail(groups))

\* self.duplicates_found += 1 for every row appended to a group
RECURSIVE DuplicatesIn(_)
DuplicatesIn(groups) ==
    IF groups = << >> THEN 0 ELSE (Len(Head(groups)) - 1) + DuplicatesIn(Tail(groups))

ActiveClinics == { i \in 1..Len(clinics) : clinics[i].is_active }

\* find_and_merge_duplicates up to its loop over merge_groups; the query
\* returns the active rows in an order of the store's choosing
FindAndMergeDuplicates ==
    /\ Ready
    /\ \E all_clinics \in Orders(ActiveClinics) :
         LET groups == Groups(all_clinics, 1, {})
         IN /\ merge_groups' = MergeGroups(groups)
            /\ duplicates_found' = duplicates_found + DuplicatesIn(groups)
            /\ pc' = IF MergeGroups(groups) = << >> THEN "idle" ELSE "merge"
    /\ UNCHANGED <<clinics, reviews, pending, potential_matches, ranked, dup_index,
                   pre, records_merged>>
    /\ UNCHANGED matchVars
    /\ UNCHANGED imputeVars
    /\ UNCHANGED collectorVars

-----------------------------------------------------------------------------
(* DataCleaner._merge_clinic_group                                         *)

completeness_score(c) ==
      (IF TruthyTag(c.google_place_id) THEN 10 ELSE 0)
    + (IF TruthyTag(c.yelp_business_id) THEN 10 ELSE 0)
    + (IF TruthyNum(c.google_rating) THEN 5 ELSE 0)
    + (IF TruthyNum(c.yelp_rating) THEN 5 ELSE 0)
    + (IF TruthyStr(c.phone) THEN 3 ELSE 0)
    + (IF TruthyTag(c.website) THEN 3 ELSE 0)
    + (IF TruthyStr(c.address) THEN 2 ELSE 0)

\* InsertRanked with > for >=: a row goes ahead of the rows with its score
RECURSIVE InsertRankedStrict(_, _)
InsertRankedStrict(sorted, id) ==
    IF sorted = << >> THEN <<id>>
    ELSE IF completeness_score(clinics[Head(sorted)]) > completeness_score(clinics[id])
         THEN <<Head(sorted)>> \o InsertRankedStrict(Tail(sorted), id)
         ELSE <<id>> \o sorted

\* list.sort(key=completeness_score, reverse=True) is stable: a row goes
\* behind every row already placed whose score is not lower
RECURSIVE InsertRanked(_, _)
InsertRanked(sorted, id) ==
    IF sorted = << >> THEN <<id>>
    ELSE IF completeness_score(clinics[Head(sorted)]) >= completeness_score(clinics[id])
         THEN <<Head(sorted)>> \o InsertRanked(Tail(sorted), id)
         ELSE <<id>> \o sorted

RECURSIVE SortByCompleteness(_, _)
SortByCompleteness(group, sorted) ==
    IF group = << >> THEN sorted
    ELSE SortByCompleteness(Tail(group), InsertRanked(sorted, Head(group)))

\* MergeYelpData taking the duplicate's Yelp id whenever it has one
TakeYelpData(primary, dup) ==
    IF TruthyTag(dup.yelp_business_id)
    THEN [primary EXCEPT !.yelp_business_id = dup.yelp_business_id,
                         !.yelp_rating = dup.yelp_rating,
                         !.yelp_review_count = dup.yelp_review_count,
                         !.yelp_price_level = dup.yelp_price_level]
    ELSE primary

\* "Merge Yelp data if primary doesn't have it"
MergeYelpData(primary, dup) ==
    IF ~TruthyTag(primary.yelp_business_id) /\ TruthyTag(dup.yelp_business_id)
    THEN [primary EXCEPT !.yelp_business_id = dup.yelp_business_id,
                         !.yelp_rating = dup.yelp_rating,
                         !.yelp_review_count = dup.yelp_review_count,
                         !.yelp_price_level = dup.yelp_price_level]
    ELSE IF TruthyTag(primary.yelp_business_id) /\ TruthyTag(dup.yelp_business_id)
         THEN IF /\ TruthyNum(dup.yelp_rating)
                 /\ \/ ~TruthyNum(primary.yelp_rating)
                    \/ Val(dup.yelp_review_count) > Val(primary.yelp_review_count)
              THEN [primary EXCEPT !.yelp_rating = dup.yelp_rating,
                                   !.yelp_review_count = dup.yelp_review_count]
              ELSE primary
         ELSE primary

\* MergeGoogleData with >= for >: on equal review counts the duplicate's
\* rating and count replace the primary's
MergeGoogleDataOnTie(primary, dup) ==
    IF ~TruthyTag(primary.google_place_id) /\ TruthyTag(dup.google_place_id)
    THEN [primary EXCEPT !.google_place_id = dup.google_place_id,
                         !.google_rating = dup.google_rating,
                         !.google_review_count = dup.google_review_count,
                         !.google_price_level = dup.google_price_level]
    ELSE IF TruthyTag(primary.google_place_id) /\ TruthyTag(dup.google_place_id)
         THEN IF /\ TruthyNum(dup.google_rating)
                 /\ \/ ~TruthyNum(primary.google_rating)
                    \/ Val(dup.google_review_count) >= Val(primary.google_review_count)
              THEN [primary EXCEPT !.google_rating = dup.google_rating,
                                   !.google_review_count = dup.google_review_count]
              ELSE primary
         ELSE primary

\* "Merge Google data if primary doesn't have it"
MergeGoogleData(primary, dup) ==
    IF ~TruthyTag(primary.google_place_id) /\ TruthyTag(dup.google_place_id)
    THEN [primary EXCEPT !.google_place_id = dup.google_place_id,
                         !.google_rating = dup.google_rating,
                         !.google_review_count = dup.google_review_count,
                         !.google_price_level = dup.google_price_level]
    ELSE IF TruthyTag(primary.google_place_id) /\ TruthyTag(dup.google_place_id)
         THEN IF /\ TruthyNum(dup.google_rating)
                 /\ \/ ~TruthyNum(primary.google_rating)
                    \/ Val(dup.google_review_count) > Val(primary.google_review_count)
              THEN [primary EXCEPT !.google_rating = dup.google_rating,
                                   !.google_review_count = dup.google_review_count]
              ELSE primary
         ELSE primary

\* FillGaps taking the duplicate's phone whenever it has one
FillGapsOverwrite(primary, dup) ==
    LET p1 == IF TruthyStr(dup.phone)
              THEN [primary EXCEPT !.phone = dup.phone] ELSE primary
        p2 == IF ~TruthyTag(p1.website) /\ TruthyTag(dup.website)
              THEN [p1 EXCEPT !.website = dup.website] ELSE p1
        p3 == IF ~TruthyNum(p2.latitude) /\ TruthyNum(dup.latitude)
              THEN [p2 EXCEPT !.latitude = dup.latitude, !.longitude = dup.longitude] ELSE p2
        p4 == IF ~TruthyTag(p3.zip_code) /\ TruthyTag(dup.zip_code)
              THEN [p3 EXCEPT !.zip_code = dup.zip_code] ELSE p3
    IN IF ~TruthyStr(p4.address) /\ TruthyStr(dup.address)
       THEN [p4 EXCEPT !.address = dup.address] ELSE p4

\* "Fill other gaps"
FillGaps(primary, dup) ==
    LET p1 == IF ~TruthyStr(primary.phone) /\ TruthyStr(dup.phone)
              THEN [primary EXCEPT !.phone = dup.phone] ELSE primary
        p2 == IF ~TruthyTag(p1.website) /\ TruthyTag(dup.website)
              THEN [p1 EXCEPT !.website = dup.website] ELSE p1
        p3 == IF ~TruthyNum(p2.latitude) /\ TruthyNum(dup.latitude)
              THEN [p2 EXCEPT !.latitude = dup.latitude, !.longitude = dup.longitude] ELSE p2
        p4 == IF ~TruthyTag(p3.zip_code) /\ TruthyTag(dup.zip_code)
              THEN [p3 EXCEPT !.zip_code = dup.zip_code] ELSE p3
    IN IF ~TruthyStr(p4.address) /\ TruthyStr(dup.address)
       THEN [p4 EXCEPT !.address = dup.address] ELSE p4

\* the primary after one turn of the loop over duplicates
MergeInto(primary, dup) == FillGaps(MergeGoogleData(MergeYelpData(primary, dup), dup), dup)

\* ClearIds leaving the Yelp id in place
ClearGoogleId(dup) == [dup EXCEPT !.google_place_id = None]

\* "Clear the duplicate's unique IDs"
ClearIds(dup) == [dup EXCEPT !.google_place_id = None, !.yelp_business_id = None]

\* the call begins: sort, primary = clinics[0], duplicates = clinics[1:]
MergeSort ==
    /\ pc \in {"merge", "merged"}
    /\ merge_groups # << >>
    /\ LET group == Head(merge_groups)
       IN IF Len(group) < 2
          THEN /\ pc' = "merged"
               /\ merge_groups' = Tail(merge_groups)
               /\ UNCHANGED <<ranked, dup_index, pre>>
          ELSE /\ ranked' = SortByCompleteness(group, << >>)
               /\ dup_index' = 2
               /\ pre' = Some([clinics |-> clinics, reviews |-> reviews, group |-> group])
               /\ pc' = "dup_fields"
               /\ UNCHANGED merge_groups
    /\ UNCHANGED <<clinics, reviews, pending, potential_matches,
                   duplicates_found, records_merged>>
    /\ UNCHANGED matchVars
    /\ UNCHANGED imputeVars
    /\ UNCHANGED collectorVars

\* one duplicate: merge its fields into the primary, clear its ids, flush
MergeDupFields ==
    /\ pc = "dup_fields"
    /\ LET primary == ranked[1]
           dup == ranked[dup_index]
       IN clinics' = [clinics EXCEPT ![primary] = MergeInto(clinics[primary], clinics[dup]),
                                     ![dup] = ClearIds(clinics[dup])]
    /\ pc' = "dup_reviews"
    /\ UNCHANGED <<reviews, pending, potential_matches, merge_groups, ranked, dup_index,
                   pre, duplicates_found, records_merged>>
    /\ UNCHANGED matchVars
    /\ UNCHANGED imputeVars
    /\ UNCHANGED collectorVars

\* ReassignReviews leaving every review where it is
KeepReviews(rs, dup, primary) == rs

\* "Reassign reviews from duplicate to primary"
ReassignReviews(rs, dup, primary) ==
    [r \in DOMAIN rs |-> IF rs[r] = dup THEN primary ELSE rs[r]]

MergeDupReviews ==
    /\ pc = "dup_reviews"
    /\ reviews' = ReassignReviews(reviews, ranked[dup_index], ranked[1])
    /\ pc' = "dup_deactivate"
    /\ UNCHANGED <<clinics, pending, potential_matches, merge_groups, ranked, dup_index,
                   pre, duplicates_found, records_merged>>
    /\ UNCHANGED matchVars
    /\ UNCHANGED imputeVars
    /\ UNCHANGED collectorVars

\* "Mark duplicate as inactive (soft delete)", and on to the next duplicate
Deactivate(dup) == [dup EXCEPT !.is_active = FALSE]

MergeDupDeactivate ==
    /\ pc = "dup_deactivate"
    /\ clinics' = [clinics EXCEPT ![ranked[dup_index]] = Deactivate(clinics[ranked[dup_index]])]
    /\ records_merged' = records_merged + 1
    /\ dup_index' = dup_index + 1
    /\ pc' = IF dup_index < Len(ranked) THEN "dup_fields" ELSE "commit"
    /\ UNCHANGED <<reviews, pending, potential_matches, merge_groups, ranked,
                   pre, duplicates_found>>
    /\ UNCHANGED matchVars
    /\ UNCHANGED imputeVars
    /\ UNCHANGED collectorVars

\* session.commit(): the call returns and the loop over merge_groups goes on
MergeCommit ==
    /\ pc = "commit"
    /\ merge_groups' = Tail(merge_groups)
    /\ pc' = "merged"
    /\ UNCHANGED <<clinics, reviews, pending, potential_matches, ranked, dup_index,
                   pre, duplicates_found, records_merged>>
    /\ UNCHANGED matchVars
    /\ UNCHANGED imputeVars
    /\ UNCHANGED collectorVars

-----------------------------------------------------------------------------
(* Ingestion and dedup on one store                                        *)

Init ==
    /\ \E s \in InitialStores : clinics = s.clinics /\ reviews = s.reviews
    /\ InitControl
    /\ call = NoCall
    /\ ret = None

Next ==
    \/ MatchOrCreate
    \/ SaveReviews
    \/ FindAndMergeDuplicates
    \/ MergeSort
    \/ MergeDupFields
    \/ MergeDupReviews
    \/ MergeDupDeactivate
    \/ MergeCommit

Spec == Init /\ [][Next]_vars

-----------------------------------------------------------------------------
(* Repeated sightings of the listings of one clinic                        *)

\* a third listing of the clinic that Y1 and Y2 list, which carries neither
\* a postal code nor coordinates
YelpBusinessNoZip ==
    YelpBusiness("Y4", Some(<<"R", "u", "s", "h">>), None, None,
                 Some(<<"5", "5", "5", "1", "0", "0", "0">>), None, None,
                 Some(45), Some(30), Some("y4.example"))

MaxSightedRows == 4

SightedListings ==
    { b \in YelpBusinesses : b.id \in {Some("Y1"), Some("Y2")} } \cup {YelpBusinessNoZip}

InitSightings ==
    /\ clinics = << >>
    /\ reviews = << >>
    /\ InitControl
    /\ call = NoCall
    /\ ret = None

SightListing ==
    \E business_data \in SightedListings :
        match_or_create_clinic(business_data, MaxSightedRows)

NextSightings ==
    \/ SightListing
    \/ SaveReviews
    \/ FindAndMergeDuplicates
    \/ MergeSort
    \/ MergeDupFields
    \/ MergeDupReviews
    \/ MergeDupDeactivate
    \/ MergeCommit

SpecSightings == InitSightings /\ [][NextSightings]_vars

-----------------------------------------------------------------------------
(* _merge_clinic_group applied to one group                                *)

MaxGroup == 3

\* Which columns a row of a group has: the provider ids and ratings, phone,
\* website, address, postal code, coordinates
Shape(g, gr, y, yr, ph, web, addr, zip, geo) ==
    [g |-> g, gr |-> gr, y |-> y, yr |-> yr, ph |-> ph, web |-> web,
     addr |-> addr, zip |-> zip, geo |-> geo]

GroupShapes ==
    { Shape(TRUE, TRUE, FALSE, FALSE, TRUE, TRUE, TRUE, TRUE, TRUE),
      Shape(FALSE, FALSE, TRUE, TRUE, TRUE, TRUE, TRUE, TRUE, TRUE),
      Shape(TRUE, TRUE, TRUE, TRUE, FALSE, FALSE, FALSE, FALSE, FALSE),
      Shape(TRUE, FALSE, FALSE, FALSE, FALSE, FALSE, FALSE, FALSE, TRUE),
      Shape(FALSE, FALSE, TRUE, TRUE, TRUE, FALSE, FALSE, TRUE, FALSE),
      Shape(FALSE, FALSE, FALSE, FALSE, FALSE, FALSE, TRUE, FALSE, TRUE),
      Shape(TRUE, TRUE, TRUE, TRUE, TRUE, TRUE, TRUE, TRUE, TRUE),
      Shape(FALSE, FALSE, TRUE, FALSE, FALSE, TRUE, TRUE, FALSE, FALSE) }

\* The row with id i of the given shape; the values of a column differ from
\* row to row
GoogleIds == <<"G1", "G2", "G3", "G4", "G5">>
YelpIds == <<"Y1", "Y2", "Y3", "Y4", "Y5">>
Websites == <<"w1.example", "w2.example", "w3.example", "w4.example", "w5.example">>
ZipCodes == <<"60611", "60612", "60613", "60614", "60615">>
ReviewCounts == <<20, 10, 20, 5, 30>>

ShapedClinic(i, s) ==
    Clinic(i, Some(<<"R", "u", "s", "h">>),
           IF s.addr THEN Some(<<DigitChars[i + 1], " ", "s", "t">>) ELSE None,
           IF s.zip THEN Some(ZipCodes[i]) ELSE None,
           IF s.ph THEN Some(<<"5", "5", "5", DigitChars[i + 1]>>) ELSE None,
           IF s.web THEN Some(Websites[i]) ELSE None,
           IF s.geo THEN Some(100 + i) ELSE None,
           IF s.geo THEN Some(200 + i) ELSE None,
           IF s.g THEN Some(GoogleIds[i]) ELSE None,
           IF s.gr THEN Some(40 + i) ELSE None,
           IF s.gr THEN Some(ReviewCounts[i]) ELSE None,
           IF s.y THEN Some(YelpIds[i]) ELSE None,
           IF s.yr THEN Some(30 + i) ELSE None,
           IF s.yr THEN Some(ReviewCounts[i]) ELSE None)

\* the groups of n rows
RECURSIVE ShapeSeqs(_)
ShapeSeqs(n) ==
    IF n = 0 THEN { << >> }
    ELSE { Append(s, x) : s \in ShapeSeqs(n - 1), x \in GroupShapes }

\* find_and_merge_duplicates is about to merge the one group it found: the
\* rows 1..n, each with a review of its own
InitMerge ==
    /\ \E n \in 2..MaxGroup : \E shapes \in ShapeSeqs(n) :
         /\ clinics = [i \in 1..n |-> ShapedClinic(i, shapes[i])]
         /\ reviews = [r \in { <<"google", GoogleIds[i]>> : i \in 1..n } |->
                         CHOOSE i \in 1..n : r[2] = GoogleIds[i]]
         /\ merge_groups = << [i \in 1..n |-> i] >>
    /\ pc = "merge"
    /\ pending = None
    /\ potential_matches = << >>
    /\ ranked = << >>
    /\ dup_index = 0
    /\ pre = None
    /\ duplicates_found = 0
    /\ records_merged = 0
    /\ stats = None
    /\ committed = << >>
    /\ added = << >>
    /\ call = NoCall
    /\ ret = None

NextMerge ==
    \/ MergeSort
    \/ MergeDupFields
    \/ MergeDupReviews
    \/ MergeDupDeactivate
    \/ MergeCommit

SpecMerge == InitMerge /\ [][NextMerge]_vars

-----------------------------------------------------------------------------
(* find_and_merge_duplicates merging two groups, with writes that may fail *)

\* The groups of one run: rows 1 and 2 are duplicates, and so are rows 3 and 4
RunGroups == << <<1, 2>>, <<3, 4>> >>

RunRows == 1..4

InitMergeRun ==
    /\ \E shapes \in ShapeSeqs(4) :
         /\ clinics = [i \in RunRows |-> ShapedClinic(i, shapes[i])]
         /\ reviews = [r \in { <<"google", GoogleIds[i]>> : i \in RunRows } |->
                         CHOOSE i \in RunRows : r[2] = GoogleIds[i]]
    /\ merge_groups = RunGroups
    /\ pc = "merge"
    /\ pending = None
    /\ potential_matches = << >>
    /\ ranked = << >>
    /\ dup_index = 0
    /\ pre = None
    /\ duplicates_found = 0
    /\ records_merged = 0
    /\ stats = None
    /\ committed = << >>
    /\ added = << >>
    /\ call = NoCall
    /\ ret = None

\* session.flush(), the query for the reviews or session.commit() raises.
\* Neither _merge_clinic_group nor the loop over merge_groups has a handler:
\* the exception leaves find_and_merge_duplicates and run_full_cleaning, and
\* cleaner.close() in the finally clause of clean_data closes the session,
\* which discards what was written since the last commit.  The groups still
\* in merge_groups are never merged.
MergeRaise ==
    /\ pc \in {"dup_fields", "dup_reviews", "commit"}
    /\ clinics' = Val(pre).clinics
    /\ reviews' = Val(pre).reviews
    /\ pc' = "raised"
    /\ UNCHANGED <<pending, potential_matches, merge_groups, ranked, dup_index,
                   pre, duplicates_found, records_merged>>
    /\ UNCHANGED matchVars
    /\ UNCHANGED imputeVars
    /\ UNCHANGED collectorVars

NextMergeRun ==
    \/ MergeSort
    \/ MergeDupFields
    \/ MergeDupReviews
    \/ MergeDupDeactivate
    \/ MergeCommit
    \/ MergeRaise

SpecMergeRun == InitMergeRun /\ [][NextMergeRun]_vars

-----------------------------------------------------------------------------
(* comprehensive_imputation: the rows it reads                             *)

\* A Clinic row as the imputation reads it.  name and clinic_type are
\* strings of characters, categories a list of such strings, zip_code a
\* string taken whole; ratings are in tenths of a star; latitude and
\* longitude are whole metres north and east of a reference point.
ImputeClinic(id, name, categories, zip, lat, lng, type, grating, yrating) ==
    [ id |-> id, name |-> name, categories |-> categories, zip_code |-> zip,
      latitude |-> lat, longitude |-> lng, clinic_type |-> type,
      google_rating |-> grating, yelp_rating |-> yrating,
      combined_rating |-> None, rating_category |-> None, is_active |-> TRUE ]

\* Truthiness of an optional list
TruthyList(x) == x # None /\ Val(x) # << >>

\* keyword in text
Contains(text, keyword) ==
    \E i \in 1..(Len(text) - Len(keyword) + 1) :
        SubSeq(text, i, i + Len(keyword) - 1) = keyword

\* str.strip()
RECURSIVE StripLeft(_)
StripLeft(s) ==
    IF s = << >> THEN << >>
    ELSE IF IsSpaceChar(Head(s)) THEN StripLeft(Tail(s)) ELSE s

RECURSIVE StripRight(_)
StripRight(s) ==
    IF s = << >> THEN << >>
    ELSE IF IsSpaceChar(s[Len(s)]) THEN StripRight(SubSeq(s, 1, Len(s) - 1)) ELSE s

Strip(s) == StripRight(StripLeft(s))

\* haversine_distance, in whole metres rounded up
haversine_distance(lat1, lon1, lat2, lon2) ==
    CeilSqrt((lat2 - lat1) * (lat2 - lat1) + (lon2 - lon1) * (lon2 - lon1))

-----------------------------------------------------------------------------
(* find_nearest_zipcode                                                    *)

ZIP_NEIGHBORS == 3
ZIP_MAX_DISTANCE_METERS == 5000

\* "Calculate distances to all clinics with ZIP codes"
RECURSIVE ZipDistances(_, _)
ZipDistances(target_clinic, clinics_with_zip) ==
    IF clinics_with_zip = << >> THEN << >>
    ELSE IF /\ TruthyNum(Head(clinics_with_zip).latitude)
            /\ TruthyNum(Head(clinics_with_zip).longitude)
            /\ TruthyTag(Head(clinics_with_zip).zip_code)
         THEN << [clinic |-> Head(clinics_with_zip),
                  dist |-> haversine_distance(Val(target_clinic.latitude),
                                              Val(target_clinic.longitude),
                                              Val(Head(clinics_with_zip).latitude),
                                              Val(Head(clinics_with_zip).longitude))] >>
              \o ZipDistances(target_clinic, Tail(clinics_with_zip))
         ELSE ZipDistances(target_clinic, Tail(clinics_with_zip))

\* distances.sort(key=lambda x: x[1]) is stable: an entry goes behind the
\* entries already placed that are not farther
RECURSIVE InsertByDistance(_, _)
InsertByDistance(sorted, entry) ==
    IF sorted = << >> THEN <<entry>>
    ELSE IF Head(sorted).dist <= entry.dist
         THEN <<Head(sorted)>> \o InsertByDistance(Tail(sorted), entry)
         ELSE <<entry>> \o sorted

RECURSIVE SortByDistance(_, _)
SortByDistance(distances, sorted) ==
    IF distances = << >> THEN sorted
    ELSE SortByDistance(Tail(distances), InsertByDistance(sorted, Head(distances)))

\* distances[:k]
Nearest(sorted, k) == SubSeq(sorted, 1, Min(k, Len(sorted)))

\* zip_counts after one more neighbour: a list in insertion order, as the
\* dict keeps it
RECURSIVE CountZip(_, _, _)
CountZip(zip_counts, zip_code, dist) ==
    IF zip_counts = << >>
    THEN << [zip |-> zip_code, count |-> 1, min_distance |-> dist] >>
    ELSE IF Head(zip_counts).zip = zip_code
         THEN << [zip |-> zip_code, count |-> Head(zip_counts).count + 1,
                  min_distance |-> Min(Head(zip_counts).min_distance, dist)] >>
              \o Tail(zip_counts)
         ELSE <<Head(zip_counts)>> \o CountZip(Tail(zip_counts), zip_code, dist)

RECURSIVE ZipCounts(_, _)
ZipCounts(nearest, zip_counts) ==
    IF nearest = << >> THEN zip_counts
    ELSE ZipCounts(Tail(nearest),
                   CountZip(zip_counts, Val(Head(nearest).clinic.zip_code), Head(nearest).dist))

\* BestZip with "nearest first": the code of the nearest neighbour wins
RECURSIVE NearestZip(_, _)
NearestZip(best, rest) ==
    IF rest = << >> THEN best
    ELSE IF Head(rest).min_distance < best.min_distance
         THEN NearestZip(Head(rest), Tail(rest))
         ELSE NearestZip(best, Tail(rest))

\* max(zip_counts.items(), key=lambda x: (count, -min_distance)): the first
\* entry that no other entry beats
RECURSIVE BestZip(_, _)
BestZip(best, rest) ==
    IF rest = << >> THEN best
    ELSE IF \/ Head(rest).count > best.count
            \/ Head(rest).count = best.count /\ Head(rest).min_distance < best.min_distance
         THEN BestZip(Head(rest), Tail(rest))
         ELSE BestZip(best, Tail(rest))

NoZip == [zip |-> None, distance |-> None, count |-> 0]

ZipVote(zip_counts) ==
    [zip |-> Some(BestZip(Head(zip_counts), Tail(zip_counts)).zip),
     distance |-> Some(BestZip(Head(zip_counts), Tail(zip_counts)).min_distance),
     count |-> BestZip(Head(zip_counts), Tail(zip_counts)).count]

find_nearest_zipcode(target_clinic, clinics_with_zip, k) ==
    IF ~TruthyNum(target_clinic.latitude) \/ ~TruthyNum(target_clinic.longitude)
    THEN NoZip
    ELSE IF ZipDistances(target_clinic, clinics_with_zip) = << >>
         THEN NoZip
         ELSE ZipVote(ZipCounts(Nearest(SortByDistance(ZipDistances(target_clinic,
                                                                    clinics_with_zip),
                                                       << >>), k),
                                << >>))

\* "if imputed_zip and distance <= 5000"
ZipAccepted(found) ==
    TruthyTag(found.zip) /\ Val(found.distance) <= ZIP_MAX_DISTANCE_METERS

-----------------------------------------------------------------------------
(* infer_clinic_type_from_name, infer_clinic_type_from_categories          *)

\* The two tables, in the order the dicts are written: that is the order
\* in which .items() yields them
type_keywords ==
    << [type |-> <<"u", "r", "g", "e", "n", "t", "_", "c", "a", "r", "e">>,
        keywords |-> << <<"u", "r", "g", "e", "n", "t">>,
                      <<"i", "m", "m", "e", "d", "i", "a", "t", "e", " ", "c", "a", "r", "e">>,
                      <<"w", "a", "l", "k", "-", "i", "n">>,
                      <<"e", "x", "p", "r", "e", "s", "s", " ", "c", "l", "i", "n", "i", "c">>,
                      <<"q", "u", "i", "c", "k", " ", "c", "a", "r", "e">> >>],
       [type |-> <<"d", "e", "n", "t", "a", "l">>,
        keywords |-> << <<"d", "e", "n", "t", "a", "l">>,
                      <<"d", "e", "n", "t", "i", "s", "t">>,
                      <<"o", "r", "t", "h", "o", "d", "o", "n", "t">>,
                      <<"t", "e", "e", "t", "h">> >>],
       [type |-> <<"p", "e", "d", "i", "a", "t", "r", "i", "c">>,
        keywords |-> << <<"p", "e", "d", "i", "a", "t", "r", "i", "c">>,
                      <<"c", "h", "i", "l", "d", "r", "e", "n">>,
                      <<"k", "i", "d", "s">>,
                      <<"c", "h", "i", "l", "d", " ", "h", "e", "a", "l", "t", "h">> >>],
       [type |-> <<"s", "p", "e", "c", "i", "a", "l", "t", "y">>,
        keywords |-> << <<"s", "u", "r", "g", "e", "r", "y">>,
                      <<"p", "l", "a", "s", "t", "i", "c">>,
                      <<"c", "o", "s", "m", "e", "t", "i", "c">>,
                      <<"d", "e", "r", "m", "a", "t", "o", "l", "o", "g", "y">>,
                      <<"c", "a", "r", "d", "i", "o", "l", "o", "g", "y">>,
                      <<"o", "n", "c", "o", "l", "o", "g", "y">>,
                      <<"n", "e", "u", "r", "o", "l", "o", "g", "y">>,
                      <<"o", "r", "t", "h", "o", "p", "e", "d", "i", "c">>,
                      <<"u", "r", "o", "l", "o", "g", "y">>,
                      <<"r", "a", "d", "i", "o", "l", "o", "g", "y">>,
                      <<"o", "p", "h", "t", "h", "a", "l", "m", "o", "l", "o", "g", "y">>,
                      <<"e", "n", "t">>,
                      <<"e", "a", "r", " ", "n", "o", "s", "e", " ", "t", "h", "r", "o", "a", "t">>,
                      <<"a", "l", "l", "e", "r", "g", "y">> >>],
       [type |-> <<"m", "e", "n", "t", "a", "l", "_", "h", "e", "a", "l", "t", "h">>,
        keywords |-> << <<"m", "e", "n", "t", "a", "l", " ", "h", "e", "a", "l", "t", "h">>,
                      <<"c", "o", "u", "n", "s", "e", "l", "i", "n", "g">>,
                      <<"p", "s", "y", "c", "h", "i", "a", "t", "r">>,
                      <<"t", "h", "e", "r", "a", "p", "y">>,
                      <<"b", "e", "h", "a", "v", "i", "o", "r", "a", "l">> >>],
       [type |-> <<"w", "o", "m", "e", "n", "s", "_", "h", "e", "a", "l", "t", "h">>,
        keywords |-> << <<"w", "o", "m", "e", "n">>,
                      <<"o", "b", "s", "t", "e", "t", "r", "i", "c">>,
                      <<"g", "y", "n", "e", "c", "o", "l", "o", "g">>,
                      <<"o", "b", "g", "y", "n">>,
                      <<"p", "r", "e", "g", "n", "a", "n", "c", "y">>,
                      <<"m", "a", "t", "e", "r", "n", "a", "l">> >>],
       [type |-> <<"p", "h", "y", "s", "i", "c", "a", "l", "_", "t", "h", "e", "r", "a", "p", "y">>,
        keywords |-> << <<"p", "h", "y", "s", "i", "c", "a", "l", " ", "t", "h", "e", "r", "a", "p", "y">>,
                      <<"r", "e", "h", "a", "b">>,
                      <<"p", "h", "y", "s", "i", "o", "t", "h", "e", "r", "a", "p", "y">>,
                      <<"c", "h", "i", "r", "o", "p", "r", "a", "c", "t">>,
                      <<"m", "a", "s", "s", "a", "g", "e">> >>],
       [type |-> <<"p", "r", "i", "m", "a", "r", "y", "_", "c", "a", "r", "e">>,
        keywords |-> << <<"f", "a", "m", "i", "l", "y">>,
                      <<"p", "r", "i", "m", "a", "r", "y", " ", "c", "a", "r", "e">>,
                      <<"g", "e", "n", "e", "r", "a", "l", " ", "p", "r", "a", "c", "t", "i", "c", "e">>,
                      <<"i", "n", "t", "e", "r", "n", "a", "l", " ", "m", "e", "d", "i", "c", "i", "n", "e">>,
                      <<"m", "e", "d", "i", "c", "a", "l", " ", "c", "e", "n", "t", "e", "r">>,
                      <<"h", "e", "a", "l", "t", "h", " ", "c", "e", "n", "t", "e", "r">>,
                      <<"c", "l", "i", "n", "i", "c">>,
                      <<"p", "h", "y", "s", "i", "c", "i", "a", "n">> >>] >>

category_mapping ==
    << [type |-> <<"u", "r", "g", "e", "n", "t", "_", "c", "a", "r", "e">>,
        keywords |-> << <<"u", "r", "g", "e", "n", "t", " ", "c", "a", "r", "e">>,
                      <<"w", "a", "l", "k", "-", "i", "n", " ", "c", "l", "i", "n", "i", "c">>,
                      <<"e", "m", "e", "r", "g", "e", "n", "c", "y">> >>],
       [type |-> <<"d", "e", "n", "t", "a", "l">>,
        keywords |-> << <<"d", "e", "n", "t", "i", "s", "t">>,
                      <<"d", "e", "n", "t", "a", "l">>,
                      <<"o", "r", "t", "h", "o", "d", "o", "n", "t", "i", "s", "t">> >>],
       [type |-> <<"p", "e", "d", "i", "a", "t", "r", "i", "c">>,
        keywords |-> << <<"p", "e", "d", "i", "a", "t", "r", "i", "c", "i", "a", "n">>,
                      <<"c", "h", "i", "l", "d", " ", "h", "e", "a", "l", "t", "h">>,
                      <<"k", "i", "d", "s">> >>],
       [type |-> <<"s", "p", "e", "c", "i", "a", "l", "t", "y">>,
        keywords |-> << <<"s", "u", "r", "g", "e", "o", "n">>,
                      <<"p", "l", "a", "s", "t", "i", "c", " ", "s", "u", "r", "g", "e", "r", "y">>,
                      <<"d", "e", "r", "m", "a", "t", "o", "l", "o", "g", "i", "s", "t">>,
                      <<"c", "a", "r", "d", "i", "o", "l", "o", "g", "i", "s", "t">>,
                      <<"o", "n", "c", "o", "l", "o", "g", "i", "s", "t">>,
                      <<"n", "e", "u", "r", "o", "l", "o", "g", "i", "s", "t">>,
                      <<"o", "r", "t", "h", "o", "p", "e", "d", "i", "s", "t">>,
                      <<"u", "r", "o", "l", "o", "g", "i", "s", "t">>,
                      <<"o", "p", "h", "t", "h", "a", "l", "m", "o", "l", "o", "g", "i", "s", "t">>,
                      <<"e", "a", "r", " ", "n", "o", "s", "e", " ", "&", " ", "t", "h", "r", "o", "a", "t">>,
                      <<"a", "l", "l", "e", "r", "g", "i", "s", "t">> >>],
       [type |-> <<"m", "e", "n", "t", "a", "l", "_", "h", "e", "a", "l", "t", "h">>,
        keywords |-> << <<"c", "o", "u", "n", "s", "e", "l", "i", "n", "g">>,
                      <<"m", "e", "n", "t", "a", "l", " ", "h", "e", "a", "l", "t", "h">>,
                      <<"p", "s", "y", "c", "h", "i", "a", "t", "r", "i", "s", "t">>,
                      <<"p", "s", "y", "c", "h", "o", "l", "o", "g", "i", "s", "t">>,
                      <<"t", "h", "e", "r", "a", "p", "y">> >>],
       [type |-> <<"w", "o", "m", "e", "n", "s", "_", "h", "e", "a", "l", "t", "h">>,
        keywords |-> << <<"o", "b", "s", "t", "e", "t", "r", "i", "c", "i", "a", "n">>,
                      <<"g", "y", "n", "e", "c", "o", "l", "o", "g", "i", "s", "t">>,
                      <<"o", "b", "g", "y", "n">>,
                      <<"w", "o", "m", "e", "n", "'", "s", " ", "h", "e", "a", "l", "t", "h">> >>],
       [type |-> <<"p", "h", "y", "s", "i", "c", "a", "l", "_", "t", "h", "e", "r", "a", "p", "y">>,
        keywords |-> << <<"p", "h", "y", "s", "i", "c", "a", "l", " ", "t", "h", "e", "r", "a", "p", "y">>,
                      <<"c", "h", "i", "r", "o", "p", "r", "a", "c", "t", "o", "r">>,
                      <<"m", "a", "s", "s", "a", "g", "e">>,
                      <<"a", "c", "u", "p", "u", "n", "c", "t", "u", "r", "e">> >>],
       [type |-> <<"p", "r", "i", "m", "a", "r", "y", "_", "c", "a", "r", "e">>,
        keywords |-> << <<"f", "a", "m", "i", "l", "y", " ", "p", "r", "a", "c", "t", "i", "c", "e">>,
                      <<"i", "n", "t", "e", "r", "n", "a", "l", " ", "m", "e", "d", "i", "c", "i", "n", "e">>,
                      <<"m", "e", "d", "i", "c", "a", "l", " ", "c", "e", "n", "t", "e", "r">>,
                      <<"g", "e", "n", "e", "r", "a", "l", " ", "p", "r", "a", "c", "t", "i", "t", "i", "o", "n", "e", "r">>,
                      <<"p", "r", "i", "m", "a", "r", "y", " ", "c", "a", "r", "e">>,
                      <<"c", "o", "n", "c", "i", "e", "r", "g", "e", " ", "m", "e", "d", "i", "c", "i", "n", "e">> >>] >>

\* any(keyword in text for keyword in keywords)
HasKeyword(text, keywords) ==
    \E k \in 1..Len(keywords) : Contains(text, keywords[k])

\* the two nested loops: the type of the first table entry one of whose
\* keywords is in the text
RECURSIVE FirstType(_, _)
FirstType(table, text) ==
    IF table = << >> THEN None
    ELSE IF HasKeyword(text, Head(table).keywords) THEN Some(Head(table).type)
    ELSE FirstType(Tail(table), text)

\* name is a str here: name.lower() on None raises AttributeError, which
\* the caller's model handles
infer_clinic_type_from_name(name) == FirstType(type_keywords, Lower(name))

infer_clinic_type_from_categories(categories) ==
    IF ~TruthyList(categories) THEN None
    ELSE FirstType(category_mapping, Lower(Join(Val(categories))))

-----------------------------------------------------------------------------
(* impute_clinic_type                                                      *)

TYPE_NEIGHBORS == 3

UnknownTypes == { <<"u", "n", "k", "n", "o", "w", "n">>, <<"n", "o", "n", "e">>, <<"n", "u", "l", "l">> }

\* a clinic_type that counts as a value
ValidType(clinic_type) ==
    /\ TruthyStr(clinic_type)
    /\ Strip(Val(clinic_type)) # << >>
    /\ Lower(Strip(Val(clinic_type))) \notin UnknownTypes

\* [c for c in all_clinics if cond(c)]
RECURSIVE SameZipClinics(_, _)
SameZipClinics(clinic, all_clinics) ==
    IF all_clinics = << >> THEN << >>
    ELSE IF /\ Head(all_clinics).zip_code = clinic.zip_code
            /\ ValidType(Head(all_clinics).clinic_type)
            /\ TruthyNum(Head(all_clinics).latitude)
            /\ TruthyNum(Head(all_clinics).longitude)
            /\ Head(all_clinics).id # clinic.id
         THEN <<Head(all_clinics)>> \o SameZipClinics(clinic, Tail(all_clinics))
         ELSE SameZipClinics(clinic, Tail(all_clinics))

\* [(c, haversine_distance(clinic, c)) for c in cs]
DistancesTo(clinic, cs) ==
    [i \in 1..Len(cs) |->
        [clinic |-> cs[i],
         dist |-> haversine_distance(Val(clinic.latitude), Val(clinic.longitude),
                                     Val(cs[i].latitude), Val(cs[i].longitude))]]

\* the k nearest of cs, nearest first
NearestTo(clinic, cs, k) == Nearest(SortByDistance(DistancesTo(clinic, cs), << >>), k)

\* Counter(types): the counts in the order of first occurrence
RECURSIVE CountType(_, _)
CountType(counts, type) ==
    IF counts = << >> THEN << [type |-> type, count |-> 1] >>
    ELSE IF Head(counts).type = type
         THEN << [type |-> type, count |-> Head(counts).count + 1] >> \o Tail(counts)
         ELSE <<Head(counts)>> \o CountType(Tail(counts), type)

RECURSIVE TypeCounts(_, _)
TypeCounts(nearest, counts) ==
    IF nearest = << >> THEN counts
    ELSE TypeCounts(Tail(nearest), CountType(counts, Val(Head(nearest).clinic.clinic_type)))

\* most_common(1): the first entry with the highest count
RECURSIVE MostCommon(_, _)
MostCommon(best, rest) ==
    IF rest = << >> THEN best
    ELSE IF Head(rest).count > best.count THEN MostCommon(Head(rest), Tail(rest))
    ELSE MostCommon(best, Tail(rest))

Imputed(value, method) == [raised |-> FALSE, value |-> value, method |-> method]
Raised == [raised |-> TRUE]

KnnType(counts) == MostCommon(Head(counts), Tail(counts)).type

\* strategies 3 and 4
TypeFromNeighbours(clinic, all_clinics) ==
    IF /\ TruthyTag(clinic.zip_code) /\ TruthyNum(clinic.latitude) /\ TruthyNum(clinic.longitude)
       /\ SameZipClinics(clinic, all_clinics) # << >>
    THEN Imputed(KnnType(TypeCounts(NearestTo(clinic, SameZipClinics(clinic, all_clinics),
                                              TYPE_NEIGHBORS), << >>)),
                 "knn_same_zip")
    ELSE Imputed(<<"p", "r", "i", "m", "a", "r", "y", "_", "c", "a", "r", "e">>, "fallback_default")

\* strategies 2 to 4
TypeFromCategories(clinic, all_clinics) ==
    IF TruthyList(clinic.categories)
       /\ infer_clinic_type_from_categories(clinic.categories) # None
    THEN Imputed(Val(infer_clinic_type_from_categories(clinic.categories)),
                 "category_inference")
    ELSE TypeFromNeighbours(clinic, all_clinics)

impute_clinic_type(clinic, all_clinics) ==
    IF clinic.name = None THEN Raised
    ELSE IF infer_clinic_type_from_name(Val(clinic.name)) # None
         THEN Imputed(Val(infer_clinic_type_from_name(Val(clinic.name))), "name_inference")
         ELSE TypeFromCategories(clinic, all_clinics)

-----------------------------------------------------------------------------
(* impute_google_rating, impute_yelp_rating                                *)

RATING_NEIGHBORS == 5
GOOGLE_FALLBACK_RATING == 40
YELP_FALLBACK_RATING == 38
MAX_RATING == 50
MIN_RATING == 10

RECURSIVE Sum(_)
Sum(s) == IF s = << >> THEN 0 ELSE Head(s) + Sum(Tail(s))

\* round(total / n, 1) in tenths.  A mean that lies half-way between two
\* tenths goes up or down with the binary value of the float; half_up says
\* which way it goes in this run.
RoundTenth(total, n, half_up) ==
    IF 2 * (total % n) < n THEN total \div n
    ELSE IF 2 * (total % n) > n THEN (total \div n) + 1
    ELSE IF half_up THEN (total \div n) + 1 ELSE total \div n

\* round(sum(ratings) / len(ratings), 1)
RoundMean(ratings, half_up) == RoundTenth(Sum(ratings), Len(ratings), half_up)

\* [c.<column> for c in cs]
Ratings(cs, column) == [i \in 1..Len(cs) |-> Val(cs[i][column])]

\* same clinic type, same ZIP, a rating in the column, another row
SameTypeZip(clinic, all_clinics, column) ==
    SelectSeq(all_clinics,
              LAMBDA c : /\ c.clinic_type = clinic.clinic_type
                         /\ c.zip_code = clinic.zip_code
                         /\ c[column] # None
                         /\ c.id # clinic.id)

\* a rating in the column and coordinates, another row
WithRatingNearby(clinic, all_clinics, column) ==
    SelectSeq(all_clinics,
              LAMBDA c : /\ c[column] # None
                         /\ TruthyNum(c.latitude)
                         /\ TruthyNum(c.longitude)
                         /\ c.id # clinic.id)

\* same clinic type and a rating in the column
SameType(clinic, all_clinics, column) ==
    SelectSeq(all_clinics,
              LAMBDA c : c.clinic_type = clinic.clinic_type /\ c[column] # None)

\* a rating in the column
WithRating(all_clinics, column) ==
    SelectSeq(all_clinics, LAMBDA c : c[column] # None)

NearestRatings(clinic, cs, column) ==
    [i \in 1..Len(NearestTo(clinic, cs, RATING_NEIGHBORS)) |->
        Val(NearestTo(clinic, cs, RATING_NEIGHBORS)[i].clinic[column])]

\* the last two strategies and the constant
CitywideRating(clinic, all_clinics, column, fallback, half_up) ==
    IF TruthyStr(clinic.clinic_type) /\ SameType(clinic, all_clinics, column) # << >>
    THEN Imputed(RoundMean(Ratings(SameType(clinic, all_clinics, column), column), half_up),
                 "avg_citywide_type")
    ELSE IF WithRating(all_clinics, column) # << >>
         THEN Imputed(RoundMean(Ratings(WithRating(all_clinics, column), column), half_up),
                      "avg_citywide_all")
         ELSE Imputed(fallback, "fallback_default")

\* "K-Nearest Neighbors (5 nearest with ... ratings)" and what follows
NeighbourRating(clinic, all_clinics, column, fallback, half_up) ==
    IF /\ TruthyNum(clinic.latitude) /\ TruthyNum(clinic.longitude)
       /\ WithRatingNearby(clinic, all_clinics, column) # << >>
    THEN Imputed(RoundMean(NearestRatings(clinic,
                                          WithRatingNearby(clinic, all_clinics, column),
                                          column), half_up),
                 "knn_5_nearest")
    ELSE CitywideRating(clinic, all_clinics, column, fallback, half_up)

\* "Average of same type in same ZIP" and what follows
PeerRating(clinic, all_clinics, column, fallback, half_up) ==
    IF /\ TruthyStr(clinic.clinic_type) /\ TruthyTag(clinic.zip_code)
       /\ SameTypeZip(clinic, all_clinics, column) # << >>
    THEN Imputed(RoundMean(Ratings(SameTypeZip(clinic, all_clinics, column), column), half_up),
                 "avg_same_type_zip")
    ELSE NeighbourRating(clinic, all_clinics, column, fallback, half_up)

\* impute_google_rating with the first two strategies the other way round
PeersBeforeProxy(clinic, all_clinics, half_up) ==
    IF /\ TruthyStr(clinic.clinic_type) /\ TruthyTag(clinic.zip_code)
       /\ SameTypeZip(clinic, all_clinics, "google_rating") # << >>
    THEN Imputed(RoundMean(Ratings(SameTypeZip(clinic, all_clinics, "google_rating"),
                                   "google_rating"), half_up),
                 "avg_same_type_zip")
    ELSE IF TruthyNum(clinic.yelp_rating)
         THEN Imputed(Min(MAX_RATING, Val(clinic.yelp_rating) + 1), "yelp_proxy")
         ELSE NeighbourRating(clinic, all_clinics, "google_rating",
                              GOOGLE_FALLBACK_RATING, half_up)

impute_google_rating(clinic, all_clinics, half_up) ==
    IF TruthyNum(clinic.yelp_rating)
    THEN Imputed(Min(MAX_RATING, Val(clinic.yelp_rating) + 1), "yelp_proxy")
    ELSE PeerRating(clinic, all_clinics, "google_rating", GOOGLE_FALLBACK_RATING, half_up)

impute_yelp_rating(clinic, all_clinics, half_up) ==
    IF TruthyNum(clinic.google_rating)
    THEN Imputed(Max(MIN_RATING, Val(clinic.google_rating) - 1), "google_proxy")
    ELSE PeerRating(clinic, all_clinics, "yelp_rating", YELP_FALLBACK_RATING, half_up)

\* calculate_rating_category with breakpoints that are not reached by a
\* rating equal to them
CategoryAbove(combined_rating) ==
    IF combined_rating = None THEN None
    ELSE IF Val(combined_rating) > 40 THEN Some("Excellent (4.0+)")
    ELSE IF Val(combined_rating) > 35 THEN Some("Good (3.5-4.0)")
    ELSE IF Val(combined_rating) > 25 THEN Some("Medium (2.5-3.5)")
    ELSE Some("Low (0-2.5)")

\* calculate_rating_category
calculate_rating_category(combined_rating) ==
    IF combined_rating = None THEN None
    ELSE IF Val(combined_rating) >= 40 THEN Some("Excellent (4.0+)")
    ELSE IF Val(combined_rating) >= 35 THEN Some("Good (3.5-4.0)")
    ELSE IF Val(combined_rating) >= 25 THEN Some("Medium (2.5-3.5)")
    ELSE Some("Low (0-2.5)")

-----------------------------------------------------------------------------
(* The imputation functions applied to one input                           *)

MaxRecords == 5

\* Which columns a row has: name, categories, ZIP, coordinates, clinic
\* type, Google rating, Yelp rating
ImputeShape(name, categories, zip, geo, type, g, y) ==
    [name |-> name, categories |-> categories, zip |-> zip, geo |-> geo,
     type |-> type, g |-> g, y |-> y]

\* Row i lies Positions[i] metres north of the reference point, all rows on
\* one meridian: rows 1, 2, 3, 5 and 6 within 200 m of each other, row 4
\* some 6 km away
Positions == <<1000, 1100, 1200, 7000, 1150, 1050>>
Meridian == 1000

ImputeRow(i, s) ==
    ImputeClinic(i, s.name, s.categories, s.zip,
                 IF s.geo THEN Some(Positions[i]) ELSE None,
                 IF s.geo THEN Some(Meridian) ELSE None,
                 s.type, s.g, s.y)

Rush == Some(<<"R", "u", "s", "h">>)
Dental == Some(<<"d", "e", "n", "t", "a", "l">>)
Pediatric == Some(<<"p", "e", "d", "i", "a", "t", "r", "i", "c">>)

\* find_nearest_zipcode: the row without a ZIP, and the rows it is given
ZipTargets ==
    << ImputeShape(Rush, None, None, TRUE, None, None, None),
      ImputeShape(Rush, None, Some(""), TRUE, None, None, None),
      ImputeShape(Rush, None, None, FALSE, None, None, None) >>

ZipNeighbours ==
    << ImputeShape(Rush, None, Some("60611"), TRUE, None, None, None),
      ImputeShape(Rush, None, Some("60612"), TRUE, None, None, None),
      ImputeShape(Rush, None, Some("60611"), FALSE, None, None, None),
      ImputeShape(Rush, None, None, TRUE, None, None, None) >>

\* impute_clinic_type: the row without a type, and the other rows
TypeTargets ==
    << ImputeShape(Some(<<"K", "i", "d", "s", " ", "D", "e", "n", "t", "a", "l">>), Some(<< <<"P", "e", "d", "i", "a", "t", "r", "i", "c", "i", "a", "n", "s">> >>), Some("60611"), TRUE,
                  None, None, None),
      ImputeShape(Rush, Some(<< <<"H", "e", "a", "l", "t", "h">>, <<"P", "e", "d", "i", "a", "t", "r", "i", "c", "i", "a", "n", "s">> >>), Some("60611"), TRUE,
                  None, None, None),
      ImputeShape(Rush, None, Some("60611"), TRUE, Some(<<"U", "n", "k", "n", "o", "w", "n">>), None, None),
      ImputeShape(Rush, Some(<< >>), None, TRUE, None, None, None),
      ImputeShape(Rush, Some(<< <<"H", "e", "a", "l", "t", "h">> >>), Some("60611"), FALSE, None, None, None),
      ImputeShape(None, Some(<< <<"P", "e", "d", "i", "a", "t", "r", "i", "c", "i", "a", "n", "s">> >>), Some("60611"), TRUE, None, None, None) >>

TypeNeighbours ==
    << ImputeShape(Rush, None, Some("60611"), TRUE, Dental, None, None),
      ImputeShape(Rush, None, Some("60611"), TRUE, Pediatric, None, None),
      ImputeShape(Rush, None, Some("60611"), TRUE, Some(<<"U", "n", "k", "n", "o", "w", "n">>), None, None),
      ImputeShape(Rush, None, Some("60612"), TRUE, Dental, None, None),
      ImputeShape(Rush, None, Some("60611"), FALSE, Pediatric, None, None) >>

\* impute_google_rating: the row without a Google rating, and the other rows
RatingTargets ==
    << ImputeShape(Rush, None, Some("60611"), TRUE, Dental, None, Some(37)),
      ImputeShape(Rush, None, Some("60611"), TRUE, Dental, None, Some(50)),
      ImputeShape(Rush, None, Some("60611"), TRUE, Dental, None, Some(10)),
      ImputeShape(Rush, None, Some("60611"), TRUE, Dental, None, None),
      ImputeShape(Rush, None, None, FALSE, Dental, None, None),
      ImputeShape(Rush, None, Some("60611"), TRUE, None, None, None),
      ImputeShape(Rush, None, None, FALSE, None, None, None) >>

RatingNeighbours ==
    << ImputeShape(Rush, None, Some("60611"), TRUE, Dental, Some(42), None),
      ImputeShape(Rush, None, Some("60612"), TRUE, Dental, Some(45), None),
      ImputeShape(Rush, None, Some("60611"), FALSE, Pediatric, Some(47), None),
      ImputeShape(Rush, None, Some("60611"), TRUE, Dental, None, Some(30)) >>

\* the same rows with the two providers exchanged, for impute_yelp_rating
Exchanged(s) == [s EXCEPT !.g = s.y, !.y = s.g]

\* row 1 of shape targets[t], followed by rows of the shapes others[idx[1]],
\* others[idx[2]], ...
CallRows(targets, t, others, idx) ==
    <<ImputeRow(1, targets[t])>> \o [i \in 1..Len(idx) |-> ImputeRow(i + 1, others[idx[i]])]

ExchangedRows(targets, t, others, idx) ==
    <<ImputeRow(1, Exchanged(targets[t]))>>
    \o [i \in 1..Len(idx) |-> ImputeRow(i + 1, Exchanged(others[idx[i]]))]

\* the lists of at most MaxRecords - 1 positions in a list of shapes
Picks(others) == SeqsUpTo(1..Len(others), MaxRecords - 1)

InitImputeFn ==
    /\ \/ \E t \in 1..Len(ZipTargets) : \E idx \in Picks(ZipNeighbours) :
            call = [fn |-> "find_nearest_zipcode",
                    clinic |-> ImputeRow(1, ZipTargets[t]),
                    all_clinics |-> Tail(CallRows(ZipTargets, t, ZipNeighbours, idx)),
                    half_up |-> FALSE]
       \/ \E t \in 1..Len(TypeTargets) : \E idx \in Picks(TypeNeighbours) :
            call = [fn |-> "impute_clinic_type",
                    clinic |-> ImputeRow(1, TypeTargets[t]),
                    all_clinics |-> CallRows(TypeTargets, t, TypeNeighbours, idx),
                    half_up |-> FALSE]
       \/ \E t \in 1..Len(RatingTargets) : \E idx \in Picks(RatingNeighbours) :
          \E h \in BOOLEAN :
            call = [fn |-> "impute_google_rating",
                    clinic |-> ImputeRow(1, RatingTargets[t]),
                    all_clinics |-> CallRows(RatingTargets, t, RatingNeighbours, idx),
                    half_up |-> h]
       \/ \E t \in 1..Len(RatingTargets) : \E idx \in Picks(RatingNeighbours) :
          \E h \in BOOLEAN :
            call = [fn |-> "impute_yelp_rating",
                    clinic |-> ImputeRow(1, Exchanged(RatingTargets[t])),
                    all_clinics |-> ExchangedRows(RatingTargets, t, RatingNeighbours, idx),
                    half_up |-> h]
    /\ ret = None
    /\ clinics = << >>
    /\ reviews = << >>
    /\ InitControl

\* the body of the loop over clinics_missing_zip
CallNearestZip ==
    /\ call.fn = "find_nearest_zipcode"
    /\ ret = None
    /\ ret' = Some([found |-> find_nearest_zipcode(call.clinic, call.all_clinics, ZIP_NEIGHBORS),
                    accepted |-> ZipAccepted(find_nearest_zipcode(call.clinic, call.all_clinics,
                                                                  ZIP_NEIGHBORS))])
    /\ UNCHANGED call
    /\ UNCHANGED storeVars
    /\ UNCHANGED imputeVars
    /\ UNCHANGED collectorVars

CallImputeType ==
    /\ call.fn = "impute_clinic_type"
    /\ ret = None
    /\ ret' = Some(impute_clinic_type(call.clinic, call.all_clinics))
    /\ UNCHANGED call
    /\ UNCHANGED storeVars
    /\ UNCHANGED imputeVars
    /\ UNCHANGED collectorVars

CallImputeGoogle ==
    /\ call.fn = "impute_google_rating"
    /\ ret = None
    /\ ret' = Some(impute_google_rating(call.clinic, call.all_clinics, call.half_up))
    /\ UNCHANGED call
    /\ UNCHANGED storeVars
    /\ UNCHANGED imputeVars
    /\ UNCHANGED collectorVars

CallImputeYelp ==
    /\ call.fn = "impute_yelp_rating"
    /\ ret = None
    /\ ret' = Some(impute_yelp_rating(call.clinic, call.all_clinics, call.half_up))
    /\ UNCHANGED call
    /\ UNCHANGED storeVars
    /\ UNCHANGED imputeVars
    /\ UNCHANGED collectorVars

NextImputeFn ==
    \/ CallNearestZip
    \/ CallImputeType
    \/ CallImputeGoogle
    \/ CallImputeYelp

SpecImputeFn == InitImputeFn /\ [][NextImputeFn]_vars

-----------------------------------------------------------------------------
(* The keyword tables applied to their own keywords                        *)

\* a word that holds no keyword of either table
PlainWord == <<"L", "a", "k", "e">>

\* the keyword on its own, and after a plain word
KeywordNames(keyword) == { keyword, PlainWord \o <<" ">> \o keyword }

KeywordTags(keyword) == { <<keyword>>, <<PlainWord, keyword>> }

InitInfer ==
    /\ \/ \E i \in 1..Len(type_keywords) : \E k \in 1..Len(type_keywords[i].keywords) :
          \E name \in KeywordNames(type_keywords[i].keywords[k]) :
            call = [fn |-> "infer_clinic_type_from_name",
                    clinic_type |-> type_keywords[i].type,
                    keyword |-> type_keywords[i].keywords[k],
                    name |-> name]
       \/ \E i \in 1..Len(category_mapping) : \E k \in 1..Len(category_mapping[i].keywords) :
          \E categories \in KeywordTags(category_mapping[i].keywords[k]) :
            call = [fn |-> "infer_clinic_type_from_categories",
                    clinic_type |-> category_mapping[i].type,
                    keyword |-> category_mapping[i].keywords[k],
                    categories |-> Some(categories)]
    /\ ret = None
    /\ clinics = << >>
    /\ reviews = << >>
    /\ InitControl

CallInferFromName ==
    /\ call.fn = "infer_clinic_type_from_name"
    /\ ret = None
    /\ ret' = Some(infer_clinic_type_from_name(call.name))
    /\ UNCHANGED call
    /\ UNCHANGED storeVars
    /\ UNCHANGED imputeVars
    /\ UNCHANGED collectorVars

CallInferFromCategories ==
    /\ call.fn = "infer_clinic_type_from_categories"
    /\ ret = None
    /\ ret' = Some(infer_clinic_type_from_categories(call.categories))
    /\ UNCHANGED call
    /\ UNCHANGED storeVars
    /\ UNCHANGED imputeVars
    /\ UNCHANGED collectorVars

NextInfer ==
    \/ CallInferFromName
    \/ CallInferFromCategories

SpecInfer == InitInfer /\ [][NextInfer]_vars

-----------------------------------------------------------------------------
(* run_comprehensive_imputation                                            *)

\* session.query(Clinic).all(), or the active rows only: the ids in query order
QueryAll(cs, include_inactive) ==
    SelectSeq([i \in 1..Len(cs) |-> i], LAMBDA i : include_inactive \/ cs[i].is_active)

\* all_clinics: the session's objects, read as they are now
AllClinics(cs, ids) == [k \in 1..Len(ids) |-> cs[ids[k]]]

\* zip_code.strip() == '' for a ZIP taken whole
BlankZips == {"", " "}

HasZip(c) == c.zip_code # None /\ Val(c.zip_code) \notin BlankZips

ClinicsWithZip(cs, ids) ==
    SelectSeq(ids, LAMBDA i : /\ HasZip(cs[i])
                              /\ TruthyNum(cs[i].latitude) /\ TruthyNum(cs[i].longitude))

ClinicsMissingZip(cs, ids) ==
    SelectSeq(ids, LAMBDA i : /\ ~HasZip(cs[i])
                              /\ TruthyNum(cs[i].latitude) /\ TruthyNum(cs[i].longitude))

ClinicsMissingType(cs, ids) == SelectSeq(ids, LAMBDA i : ~ValidType(cs[i].clinic_type))

ClinicsMissingGoogle(cs, ids) == SelectSeq(ids, LAMBDA i : cs[i].google_rating = None)

ClinicsMissingYelp(cs, ids) == SelectSeq(ids, LAMBDA i : cs[i].yelp_rating = None)

\* "if not dry_run: clinic.<column> = value", written whatever dry_run says
SetAlways(cs, id, column, value, dry_run) ==
    [cs EXCEPT ![id] = [@ EXCEPT ![column] = value]]

\* "if not dry_run: clinic.<column> = value"
SetUnlessDry(cs, id, column, value, dry_run) ==
    IF dry_run THEN cs ELSE [cs EXCEPT ![id] = [@ EXCEPT ![column] = value]]

\* what a loop leaves: the objects, its counter, and whether it raised
Looped(cs, n) == [raised |-> FALSE, clinics |-> cs, n |-> n]
LoopRaised(cs, n) == [raised |-> TRUE, clinics |-> cs, n |-> n]

\* the log lines that slice clinic.name: a name of None cannot be sliced
NameSliceRaises(c) == c.name = None

\* only the first ratings imputed by a step are logged
LOGGED_RATINGS == 10

\* STEP 1: the loop over clinics_missing_zip
RECURSIVE ZipLoop(_, _, _, _, _)
ZipLoop(cs, clinics_with_zip, missing, n, dry_run) ==
    IF missing = << >> THEN Looped(cs, n)
    ELSE IF ZipAccepted(find_nearest_zipcode(cs[Head(missing)],
                                             AllClinics(cs, clinics_with_zip), ZIP_NEIGHBORS))
         THEN IF NameSliceRaises(cs[Head(missing)])
              THEN LoopRaised(cs, n + 1)
              ELSE ZipLoop(SetUnlessDry(cs, Head(missing), "zip_code",
                                        find_nearest_zipcode(cs[Head(missing)],
                                                             AllClinics(cs, clinics_with_zip),
                                                             ZIP_NEIGHBORS).zip,
                                        dry_run),
                           clinics_with_zip, Tail(missing), n + 1, dry_run)
         ELSE ZipLoop(cs, clinics_with_zip, Tail(missing), n, dry_run)

\* STEP 2: the loop over clinics_missing_type
RECURSIVE TypeLoop(_, _, _, _, _)
TypeLoop(cs, ids, missing, n, dry_run) ==
    IF missing = << >> THEN Looped(cs, n)
    ELSE IF impute_clinic_type(cs[Head(missing)], AllClinics(cs, ids)).raised
         THEN LoopRaised(cs, n)
         ELSE TypeLoop(SetUnlessDry(cs, Head(missing), "clinic_type",
                                    Some(impute_clinic_type(cs[Head(missing)],
                                                            AllClinics(cs, ids)).value),
                                    dry_run),
                       ids, Tail(missing), n + 1, dry_run)

\* STEP 3: the loop over clinics_missing_google
RECURSIVE GoogleLoop(_, _, _, _, _, _)
GoogleLoop(cs, ids, missing, n, dry_run, half_up) ==
    IF missing = << >> THEN Looped(cs, n)
    ELSE IF n + 1 <= LOGGED_RATINGS /\ NameSliceRaises(cs[Head(missing)])
         THEN LoopRaised(cs, n + 1)
         ELSE GoogleLoop(SetUnlessDry(cs, Head(missing), "google_rating",
                                      Some(impute_google_rating(cs[Head(missing)],
                                                                AllClinics(cs, ids),
                                                                half_up).value),
                                      dry_run),
                         ids, Tail(missing), n + 1, dry_run, half_up)

\* STEP 4: the loop over clinics_missing_yelp
RECURSIVE YelpLoop(_, _, _, _, _, _)
YelpLoop(cs, ids, missing, n, dry_run, half_up) ==
    IF missing = << >> THEN Looped(cs, n)
    ELSE IF n + 1 <= LOGGED_RATINGS /\ NameSliceRaises(cs[Head(missing)])
         THEN LoopRaised(cs, n + 1)
         ELSE YelpLoop(SetUnlessDry(cs, Head(missing), "yelp_rating",
                                    Some(impute_yelp_rating(cs[Head(missing)],
                                                            AllClinics(cs, ids),
                                                            half_up).value),
                                    dry_run),
                       ids, Tail(missing), n + 1, dry_run, half_up)

\* STEP 5: the truthy provider ratings of a row, its new combined rating
ProviderRatings(c) ==
    (IF TruthyNum(c.google_rating) THEN <<Val(c.google_rating)>> ELSE << >>)
    \o (IF TruthyNum(c.yelp_rating) THEN <<Val(c.yelp_rating)>> ELSE << >>)

NewCombined(c, half_up) == Some(RoundMean(ProviderRatings(c), half_up))

\* one row of STEP 5: combined_rating, then rating_category
UpdateCombined(cs, id, dry_run, half_up) ==
    IF cs[id].combined_rating # NewCombined(cs[id], half_up)
    THEN SetUnlessDry(cs, id, "combined_rating", NewCombined(cs[id], half_up), dry_run)
    ELSE cs

RECURSIVE CategoryLoop(_, _, _, _, _)
CategoryLoop(cs, todo, n, dry_run, half_up) ==
    IF todo = << >> THEN Looped(cs, n)
    ELSE IF ProviderRatings(cs[Head(todo)]) = << >>
         THEN CategoryLoop(cs, Tail(todo), n, dry_run, half_up)
         ELSE IF cs[Head(todo)].rating_category
                   # calculate_rating_category(NewCombined(cs[Head(todo)], half_up))
              THEN CategoryLoop(
                     SetUnlessDry(UpdateCombined(cs, Head(todo), dry_run, half_up),
                                  Head(todo), "rating_category",
                                  calculate_rating_category(NewCombined(cs[Head(todo)],
                                                                        half_up)),
                                  dry_run),
                     Tail(todo), n + 1, dry_run, half_up)
              ELSE CategoryLoop(UpdateCombined(cs, Head(todo), dry_run, half_up),
                                Tail(todo), n, dry_run, half_up)

\* stats as initialised
NewStats ==
    [zip_codes_imputed |-> 0, clinic_types_imputed |-> 0, google_ratings_imputed |-> 0,
     yelp_ratings_imputed |-> 0, rating_categories_updated |-> 0,
     imputation_details |-> << >>]

\* the steps in the order the function runs them, and the counter of each
StepAfter(step) ==
    CASE step = "impute_zip" -> "impute_type"
      [] step = "impute_type" -> "impute_google"
      [] step = "impute_google" -> "impute_yelp"
      [] step = "impute_yelp" -> "impute_category"
      [] step = "impute_category" -> "impute_commit"

StepCounter(step) ==
    CASE step = "impute_zip" -> "zip_codes_imputed"
      [] step = "impute_type" -> "clinic_types_imputed"
      [] step = "impute_google" -> "google_ratings_imputed"
      [] step = "impute_yelp" -> "yelp_ratings_imputed"
      [] step = "impute_category" -> "rating_categories_updated"

\* one step: its list, built from the objects as they are when the step
\* starts, and its loop
StepLoop(step, cs, ids, dry_run, half_up) ==
    CASE step = "impute_zip" ->
           ZipLoop(cs, ClinicsWithZip(cs, ids), ClinicsMissingZip(cs, ids), 0, dry_run)
      [] step = "impute_type" ->
           TypeLoop(cs, ids, ClinicsMissingType(cs, ids), 0, dry_run)
      [] step = "impute_google" ->
           GoogleLoop(cs, ids, ClinicsMissingGoogle(cs, ids), 0, dry_run, half_up)
      [] step = "impute_yelp" ->
           YelpLoop(cs, ids, ClinicsMissingYelp(cs, ids), 0, dry_run, half_up)
      [] step = "impute_category" ->
           CategoryLoop(cs, ids, 0, dry_run, half_up)

\* what a run leaves: whether it raised, the objects, the stats
RunEnd(raised, cs, st) == [raised |-> raised, clinics |-> cs, stats |-> st]

\* the body of the try block from one step on
RECURSIVE RunSteps(_, _, _, _, _, _)
RunSteps(step, cs, st, ids, dry_run, half_up) ==
    IF step = "impute_commit" THEN RunEnd(FALSE, cs, st)
    ELSE IF StepLoop(step, cs, ids, dry_run, half_up).raised
         THEN RunEnd(TRUE, cs, st)
         ELSE RunSteps(StepAfter(step),
                       StepLoop(step, cs, ids, dry_run, half_up).clinics,
                       [st EXCEPT ![StepCounter(step)] =
                                      StepLoop(step, cs, ids, dry_run, half_up).n],
                       ids, dry_run, half_up)

\* run_comprehensive_imputation on a table
run_comprehensive_imputation(cs, dry_run, include_inactive, half_up) ==
    RunSteps("impute_zip", cs, NewStats, QueryAll(cs, include_inactive), dry_run, half_up)

-----------------------------------------------------------------------------
(* impute_missing_zipcodes                                                 *)

\* The two queries: active rows with a ZIP and coordinates, active rows
\* with coordinates and no ZIP
ActiveWithZip(cs) ==
    SelectSeq([i \in 1..Len(cs) |-> i],
              LAMBDA i : /\ cs[i].is_active
                         /\ cs[i].zip_code # None /\ cs[i].zip_code # Some("")
                         /\ cs[i].latitude # None /\ cs[i].longitude # None)

ActiveMissingZip(cs) ==
    SelectSeq([i \in 1..Len(cs) |-> i],
              LAMBDA i : /\ cs[i].is_active
                         /\ (cs[i].zip_code = None \/ cs[i].zip_code = Some(""))
                         /\ cs[i].latitude # None /\ cs[i].longitude # None)

ZipStats(total_missing) ==
    [total_missing |-> total_missing, imputed |-> 0, too_far |-> 0, no_neighbors |-> 0,
     imputation_details |-> << >>]

\* the detail dict of one imputation
ZipDetail(clinic, found) ==
    [clinic_id |-> clinic.id,
     old_zipcode |-> IF TruthyTag(clinic.zip_code) THEN Val(clinic.zip_code) ELSE "NULL",
     new_zipcode |-> Val(found.zip),
     distance_meters |-> Val(found.distance),
     neighbor_count |-> found.count]

\* "if not dry_run: stats['imputed'] += 1"
CountImputed(st, dry_run) ==
    IF dry_run THEN st ELSE [st EXCEPT !.imputed = @ + 1]

\* the loop over clinics_missing_zip; found is what find_nearest_zipcode
\* returned for the head of the list
RECURSIVE ZipOnlyLoop(_, _, _, _, _)
RECURSIVE ZipOnlyBody(_, _, _, _, _, _)
ZipOnlyBody(cs, clinics_with_zip, missing, st, dry_run, found) ==
    IF found.zip = None
    THEN ZipOnlyLoop(cs, clinics_with_zip, Tail(missing),
                     [st EXCEPT !.no_neighbors = @ + 1], dry_run)
    ELSE IF Val(found.distance) > ZIP_MAX_DISTANCE_METERS
         THEN ZipOnlyLoop(cs, clinics_with_zip, Tail(missing),
                          [st EXCEPT !.too_far = @ + 1], dry_run)
         ELSE IF NameSliceRaises(cs[Head(missing)])
              THEN RunEnd(TRUE, cs,
                          [st EXCEPT !.imputation_details =
                                         Append(@, ZipDetail(cs[Head(missing)], found))])
              ELSE ZipOnlyLoop(SetUnlessDry(cs, Head(missing), "zip_code", found.zip, dry_run),
                               clinics_with_zip, Tail(missing),
                               CountImputed([st EXCEPT !.imputation_details =
                                                 Append(@, ZipDetail(cs[Head(missing)], found))],
                                            dry_run),
                               dry_run)

ZipOnlyLoop(cs, clinics_with_zip, missing, st, dry_run) ==
    IF missing = << >> THEN RunEnd(FALSE, cs, st)
    ELSE ZipOnlyBody(cs, clinics_with_zip, missing, st, dry_run,
                     find_nearest_zipcode(cs[Head(missing)], AllClinics(cs, clinics_with_zip),
                                          ZIP_NEIGHBORS))

\* impute_missing_zipcodes on a table, up to the commit
impute_missing_zipcodes(cs, dry_run) ==
    ZipOnlyLoop(cs, ActiveWithZip(cs), ActiveMissingZip(cs),
                ZipStats(Len(ActiveMissingZip(cs))), dry_run)

-----------------------------------------------------------------------------
(* Imputation runs on a table                                              *)

MaxRunRecords == 3

\* a far row lies FarOffset metres further north than its position
FarOffset == 6000

RunShape(shape, far, active) ==
    [shape |-> shape, far |-> far, active |-> active, combined |-> None, category |-> None]

\* a near, active row that an earlier run left with a combined rating and
\* a rating category
StoredShape(shape, combined, category) ==
    [shape |-> shape, far |-> FALSE, active |-> TRUE, combined |-> Some(combined),
     category |-> Some(category)]

KidsDental == Some(<<"K", "i", "d", "s", " ", "D", "e", "n", "t", "a", "l">>)
Pediatricians == Some(<< <<"P", "e", "d", "i", "a", "t", "r", "i", "c", "i", "a", "n", "s">> >>)

\* The rows a run can find: a complete row; a row with a name and
\* coordinates only; a row its name gives a type and its Yelp rating a
\* Google rating; a row without a name or a type; a typed row without
\* ratings; a far row with a blank ZIP; a row without a name, a ZIP or a
\* Yelp rating; an inactive complete row; a complete row with the combined
\* rating and the category of its ratings stored
RunShapes ==
    << RunShape(ImputeShape(Rush, None, Some("60611"), TRUE, Dental, Some(42), Some(37)),
                FALSE, TRUE),
      RunShape(ImputeShape(Rush, None, None, TRUE, None, None, None), FALSE, TRUE),
      RunShape(ImputeShape(KidsDental, None, Some("60611"), TRUE, None, None, Some(41)),
                FALSE, TRUE),
      RunShape(ImputeShape(None, Pediatricians, Some("60611"), TRUE, None, Some(45), Some(40)),
                FALSE, TRUE),
      RunShape(ImputeShape(Rush, None, Some("60612"), TRUE, Pediatric, None, None),
                FALSE, TRUE),
      RunShape(ImputeShape(Rush, None, Some(" "), TRUE, Dental, Some(46), None), TRUE, TRUE),
      RunShape(ImputeShape(None, None, Some(""), TRUE, Dental, Some(42), None),
                FALSE, TRUE),
      RunShape(ImputeShape(Rush, None, Some("60612"), TRUE, Pediatric, Some(44), Some(40)),
                FALSE, FALSE),
      StoredShape(ImputeShape(Rush, None, Some("60612"), TRUE, Pediatric, Some(44), Some(40)),
                  42, "Excellent (4.0+)") >>

RunRow(i, r) ==
    [ImputeClinic(i, r.shape.name, r.shape.categories, r.shape.zip,
                  Some(Positions[i] + (IF r.far THEN FarOffset ELSE 0)), Some(Meridian),
                  r.shape.type, r.shape.g, r.shape.y)
       EXCEPT !.is_active = r.active, !.combined_rating = r.combined,
              !.rating_category = r.category]

RunTable(idx) == [i \in 1..Len(idx) |-> RunRow(i, RunShapes[idx[i]])]

\* a table of at most MaxRunRecords rows, in the database and loaded into
\* the session; stats as the function initialises it
InitImpute ==
    /\ \E idx \in SeqsUpTo(1..Len(RunShapes), MaxRunRecords) :
         /\ clinics = RunTable(idx)
         /\ committed = RunTable(idx)
         /\ pre = Some([clinics |-> RunTable(idx), reviews |-> << >>])
         /\ \/ /\ \E d, a, h \in BOOLEAN :
                    call = [fn |-> "run_comprehensive_imputation", dry_run |-> d,
                            include_inactive |-> a, half_up |-> h]
               /\ pc = "impute_zip"
               /\ stats = Some(NewStats)
            \/ /\ \E d \in BOOLEAN :
                    call = [fn |-> "impute_missing_zipcodes", dry_run |-> d,
                            include_inactive |-> FALSE, half_up |-> FALSE]
               /\ pc = "zip_only"
               /\ stats = Some(ZipStats(Len(ActiveMissingZip(RunTable(idx)))))
    /\ ret = None
    /\ reviews = << >>
    /\ pending = None
    /\ potential_matches = << >>
    /\ merge_groups = << >>
    /\ ranked = << >>
    /\ dup_index = 0
    /\ duplicates_found = 0
    /\ records_merged = 0
    /\ added = << >>

runFrame == <<reviews, pending, potential_matches, merge_groups, ranked, dup_index, pre,
              duplicates_found, records_merged, added>>

\* all_clinics of the run under way
RunIds == QueryAll(clinics, call.include_inactive)

\* the loop of the step the run is at, on the session's objects
ThisLoop == StepLoop(pc, clinics, RunIds, call.dry_run, call.half_up)

\* STEP 1 runs to its end
ImputeZipCodes ==
    /\ pc = "impute_zip"
    /\ ~ThisLoop.raised
    /\ clinics' = ThisLoop.clinics
    /\ stats' = Some([Val(stats) EXCEPT ![StepCounter(pc)] = ThisLoop.n])
    /\ pc' = StepAfter(pc)
    /\ UNCHANGED <<call, ret, committed>>
    /\ UNCHANGED runFrame

\* STEP 2 runs to its end
ImputeClinicTypes ==
    /\ pc = "impute_type"
    /\ ~ThisLoop.raised
    /\ clinics' = ThisLoop.clinics
    /\ stats' = Some([Val(stats) EXCEPT ![StepCounter(pc)] = ThisLoop.n])
    /\ pc' = StepAfter(pc)
    /\ UNCHANGED <<call, ret, committed>>
    /\ UNCHANGED runFrame

\* STEP 3 runs to its end
ImputeGoogleRatings ==
    /\ pc = "impute_google"
    /\ ~ThisLoop.raised
    /\ clinics' = ThisLoop.clinics
    /\ stats' = Some([Val(stats) EXCEPT ![StepCounter(pc)] = ThisLoop.n])
    /\ pc' = StepAfter(pc)
    /\ UNCHANGED <<call, ret, committed>>
    /\ UNCHANGED runFrame

\* STEP 4 runs to its end
ImputeYelpRatings ==
    /\ pc = "impute_yelp"
    /\ ~ThisLoop.raised
    /\ clinics' = ThisLoop.clinics
    /\ stats' = Some([Val(stats) EXCEPT ![StepCounter(pc)] = ThisLoop.n])
    /\ pc' = StepAfter(pc)
    /\ UNCHANGED <<call, ret, committed>>
    /\ UNCHANGED runFrame

\* STEP 5 runs to its end
UpdateRatingCategories ==
    /\ pc = "impute_category"
    /\ ~ThisLoop.raised
    /\ clinics' = ThisLoop.clinics
    /\ stats' = Some([Val(stats) EXCEPT ![StepCounter(pc)] = ThisLoop.n])
    /\ pc' = StepAfter(pc)
    /\ UNCHANGED <<call, ret, committed>>
    /\ UNCHANGED runFrame

\* "if not dry_run: session.commit()", then "return stats"
ImputeCommit ==
    /\ pc = "impute_commit"
    /\ committed' = IF call.dry_run THEN committed ELSE clinics
    /\ ret' = stats
    /\ pc' = "returned"
    /\ UNCHANGED <<call, clinics, stats>>
    /\ UNCHANGED runFrame

\* A step raises: the except clause rolls the session back and raises
\* again, so that the caller gets no stats and the objects are what the
\* database holds
ImputeRaise ==
    /\ pc \in {"impute_zip", "impute_type", "impute_google", "impute_yelp"}
    /\ ThisLoop.raised
    /\ clinics' = committed
    /\ pc' = "raised"
    /\ UNCHANGED <<call, ret, stats, committed>>
    /\ UNCHANGED runFrame

\* impute_missing_zipcodes: the loop, "if not dry_run and stats['imputed']
\* > 0: session.commit()", "return stats"; or the loop raises and the
\* except clause rolls back and raises again
ImputeMissingZipcodes ==
    /\ pc = "zip_only"
    /\ ~impute_missing_zipcodes(clinics, call.dry_run).raised
    /\ clinics' = impute_missing_zipcodes(clinics, call.dry_run).clinics
    /\ stats' = Some(impute_missing_zipcodes(clinics, call.dry_run).stats)
    /\ committed' = IF ~call.dry_run /\ Val(stats').imputed > 0 THEN clinics' ELSE committed
    /\ ret' = stats'
    /\ pc' = "returned"
    /\ UNCHANGED call
    /\ UNCHANGED runFrame

ImputeMissingZipcodesRaise ==
    /\ pc = "zip_only"
    /\ impute_missing_zipcodes(clinics, call.dry_run).raised
    /\ clinics' = committed
    /\ pc' = "raised"
    /\ UNCHANGED <<call, ret, stats, committed>>
    /\ UNCHANGED runFrame

NextImpute ==
    \/ ImputeZipCodes
    \/ ImputeClinicTypes
    \/ ImputeGoogleRatings
    \/ ImputeYelpRatings
    \/ UpdateRatingCategories
    \/ ImputeCommit
    \/ ImputeRaise
    \/ ImputeMissingZipcodes
    \/ ImputeMissingZipcodesRaise

SpecImpute == InitImpute /\ [][NextImpute]_vars

-----------------------------------------------------------------------------
(* DataEnrichment.enrich_all_clinics                                       *)

\* 2. Data Source label
DataSource(has_google_data, has_yelp_data) ==
    IF has_google_data /\ has_yelp_data THEN "Both"
    ELSE IF has_google_data THEN "Google Only"
    ELSE IF has_yelp_data THEN "Yelp Only"
    ELSE "Unknown"

\* 3. round(sum(ratings) / len(ratings), 2), in hundredths: the mean of one
\* or two ratings given in tenths is a whole number of hundredths
CombinedRating(ratings) ==
    IF ratings = << >> THEN None ELSE Some((100 * Sum(ratings)) \div (10 * Len(ratings)))

\* 4. (google_review_count or 0) + (yelp_review_count or 0)
OrZero(x) == IF x = None THEN 0 ELSE Val(x)

\* 5. Rating Category, of a combined rating in hundredths
EnrichedRatingCategory(combined_rating) ==
    IF combined_rating # None
    THEN IF Val(combined_rating) >= 400 THEN "Excellent (4.0+)"
         ELSE IF Val(combined_rating) >= 350 THEN "Good (3.5-4.0)"
         ELSE IF Val(combined_rating) >= 250 THEN "Medium (2.5-3.5)"
         ELSE "Low (0-2.5)"
    ELSE "Unknown"

\* 6. Review Volume Category
ReviewVolumeCategory(combined_review_count) ==
    IF combined_review_count >= 100 THEN "Very High (100+)"
    ELSE IF combined_review_count >= 50 THEN "High (51-100)"
    ELSE IF combined_review_count >= 10 THEN "Medium (11-50)"
    ELSE "Low (0-10)"

\* _enrich_clinic
_enrich_clinic(clinic) ==
    [clinic EXCEPT
       !.has_google_data = Some(clinic.google_place_id # None),
       !.has_yelp_data = Some(clinic.yelp_business_id # None),
       !.data_source = Some(DataSource(clinic.google_place_id # None,
                                       clinic.yelp_business_id # None)),
       !.combined_rating = CombinedRating(ProviderRatings(clinic)),
       !.combined_review_count = Some(OrZero(clinic.google_review_count)
                                      + OrZero(clinic.yelp_review_count)),
       !.rating_category =
           Some(EnrichedRatingCategory(CombinedRating(ProviderRatings(clinic)))),
       !.review_volume_category =
           Some(ReviewVolumeCategory(OrZero(clinic.google_review_count)
                                     + OrZero(clinic.yelp_review_count)))]

\* enrich_all_clinics: every active row, then commit
EnrichAllClinics ==
    /\ Ready
    /\ clinics' = [i \in 1..Len(clinics) |->
                     IF clinics[i].is_active THEN _enrich_clinic(clinics[i]) ELSE clinics[i]]
    /\ UNCHANGED <<reviews, pc, pending, potential_matches, merge_groups, ranked, dup_index,
                   pre, duplicates_found, records_merged>>
    /\ UNCHANGED matchVars
    /\ UNCHANGED imputeVars
    /\ UNCHANGED collectorVars

\* The collector, the cleaner and the enrichment on one store
NextEnrich ==
    \/ Next
    \/ EnrichAllClinics

SpecEnrich == Init /\ [][NextEnrich]_vars

-----------------------------------------------------------------------------
(* Properties of the imputation functions                                  *)

ZipCalled == call.fn = "find_nearest_zipcode" /\ ret # None
TypeCalled == call.fn = "impute_clinic_type" /\ ret # None
GoogleCalled == call.fn = "impute_google_rating" /\ ret # None
YelpCalled == call.fn = "impute_yelp_rating" /\ ret # None

\* the rows of the call, by position, and their distance from the target
Others == 1..Len(call.all_clinics)
Other(i) == call.all_clinics[i]
HasCoordinates(c) == TruthyNum(c.latitude) /\ TruthyNum(c.longitude)
DistanceTo(i) ==
    haversine_distance(Val(call.clinic.latitude), Val(call.clinic.longitude),
                       Val(Other(i).latitude), Val(Other(i).longitude))

\* S is a choice of the k nearest rows of the set E
NearestOf(S, E, k) ==
    /\ S \subseteq E
    /\ Cardinality(S) = Min(k, Cardinality(E))
    /\ \A i \in S : \A j \in E \ S : DistanceTo(i) <= DistanceTo(j)

\* the rows that can lend their postal code
WithZip == { i \in Others : HasCoordinates(Other(i)) /\ TruthyTag(Other(i).zip_code) }

ZipCount(S, z) == Cardinality({ i \in S : Other(i).zip_code = z })
ZipMinDistance(S, z) ==
    CHOOSE d \in { DistanceTo(i) : i \in { j \in S : Other(j).zip_code = z } } :
        \A i \in S : Other(i).zip_code = z => d <= DistanceTo(i)

\* no code of S is more frequent than z, and none that is as frequent is nearer
ZipWins(S, z) ==
    /\ ZipCount(S, z) > 0
    /\ \A i \in S :
         \/ ZipCount(S, Other(i).zip_code) < ZipCount(S, z)
         \/ /\ ZipCount(S, Other(i).zip_code) = ZipCount(S, z)
            /\ ZipMinDistance(S, Other(i).zip_code) >= ZipMinDistance(S, z)

\* C14: for a row with coordinates and no postal code, the code found is the
\* most frequent code among the 3 nearest rows that have a postal code (and
\* coordinates), of equally frequent codes the one whose nearest row is
\* nearer; it is applied exactly when the nearest row with the winning code
\* is at most 5000 m away, however far the other two are, and no code is
\* found when no row has one.
C14_ModalZipWithinCap ==
    (ZipCalled /\ HasCoordinates(call.clinic) /\ ~TruthyTag(call.clinic.zip_code)) =>
      IF WithZip = {}
      THEN Val(ret).found.zip = None /\ ~Val(ret).accepted
      ELSE \E S \in SUBSET WithZip :
             /\ NearestOf(S, WithZip, 3)
             /\ Val(ret).found.zip # None
             /\ ZipWins(S, Val(ret).found.zip)
             /\ Val(ret).found.distance = Some(ZipMinDistance(S, Val(ret).found.zip))
             /\ Val(ret).found.count = ZipCount(S, Val(ret).found.zip)
             /\ Val(ret).accepted <=> ZipMinDistance(S, Val(ret).found.zip) <= 5000

\* a code was applied that two of the three nearest rows share, although
\* the nearest row has another code and the third row is beyond the cap
C14_ModalBeatsNearest ==
    /\ ZipCalled
    /\ Val(ret).accepted
    /\ Val(ret).found.count = 2
    /\ Cardinality(WithZip) = 3
    /\ \E i \in WithZip : /\ Other(i).zip_code # Val(ret).found.zip
                           /\ DistanceTo(i) < Val(Val(ret).found.distance)
    /\ \E i \in WithZip : DistanceTo(i) > 5000

\* table yields type for text: type belongs to the first entry of the table
\* one of whose keywords occurs in the text
Yields(table, text, type) ==
    \E k \in 1..Len(table) :
        /\ table[k].type = type
        /\ HasKeyword(text, table[k].keywords)
        /\ \A j \in 1..(k - 1) : ~HasKeyword(text, table[j].keywords)

YieldsNothing(table, text) ==
    \A k \in 1..Len(table) : ~HasKeyword(text, table[k].keywords)

NameText == Lower(Val(call.clinic.name))
CategoriesText == Lower(Join(Val(call.clinic.categories)))

NameYieldsNothing == YieldsNothing(type_keywords, NameText)
CategoriesYieldNothing ==
    ~TruthyList(call.clinic.categories) \/ YieldsNothing(category_mapping, CategoriesText)

\* the other rows with the target's postal code, a resolved type and coordinates
TypePool ==
    IF TruthyTag(call.clinic.zip_code) /\ HasCoordinates(call.clinic)
    THEN { i \in Others : /\ Other(i).id # call.clinic.id
                          /\ Other(i).zip_code = call.clinic.zip_code
                          /\ ValidType(Other(i).clinic_type)
                          /\ HasCoordinates(Other(i)) }
    ELSE {}

TypeCountIn(S, type) == Cardinality({ i \in S : Val(Other(i).clinic_type) = type })

\* type is a most frequent type of some choice of the 3 nearest rows of the pool
MostFrequentNearby(type) ==
    \E S \in SUBSET TypePool :
        /\ NearestOf(S, TypePool, 3)
        /\ TypeCountIn(S, type) > 0
        /\ \A i \in S : TypeCountIn(S, Val(Other(i).clinic_type)) <= TypeCountIn(S, type)

\* C15: impute_clinic_type always returns a category and the tag of the
\* strategy that gave it; it never ends without a value.
C15_AlwaysReturns == TypeCalled => ~Val(ret).raised

\* The part of C15 the code has: for a row that has a name,
\* impute_clinic_type returns a category and the tag of the first strategy
\* that yields one, in the order name_inference,
\* category_inference, knn_same_zip, fallback_default; knn_same_zip gives a
\* most frequent type among the 3 nearest other rows with the same postal
\* code, a resolved type and coordinates, and fallback_default gives
\* primary_care.  For a row without a name it raises.
C15_FirstStrategyThatYields ==
    TypeCalled =>
      IF call.clinic.name = None THEN Val(ret).raised
      ELSE /\ ~Val(ret).raised
           /\ IF ~NameYieldsNothing
              THEN /\ Val(ret).method = "name_inference"
                   /\ Yields(type_keywords, NameText, Val(ret).value)
              ELSE IF ~CategoriesYieldNothing
              THEN /\ Val(ret).method = "category_inference"
                   /\ Yields(category_mapping, CategoriesText, Val(ret).value)
              ELSE IF TypePool # {}
              THEN /\ Val(ret).method = "knn_same_zip"
                   /\ MostFrequentNearby(Val(ret).value)
              ELSE /\ Val(ret).method = "fallback_default"
                   /\ Val(ret).value = <<"p", "r", "i", "m", "a", "r", "y", "_", "c", "a", "r", "e">>

\* knn_same_zip fired with four rows in the pool, and the type it gave is
\* not more frequent in the whole pool than another type
C15_ThreeNearestDecide ==
    /\ TypeCalled
    /\ ~Val(ret).raised
    /\ Val(ret).method = "knn_same_zip"
    /\ Cardinality(TypePool) = 4
    /\ \E i \in TypePool :
         /\ Val(Other(i).clinic_type) # Val(ret).value
         /\ TypeCountIn(TypePool, Val(Other(i).clinic_type))
              >= TypeCountIn(TypePool, Val(ret).value)

\* the sum of the ratings in a column over a set of rows of the call
RECURSIVE RatingSum(_, _)
RatingSum(S, column) ==
    IF S = {} THEN 0
    ELSE LET i == CHOOSE j \in S : TRUE
         IN Val(Other(i)[column]) + RatingSum(S \ {i}, column)

\* value is the mean of the column over S, to the nearest tenth
IsRoundedMean(value, S, column) ==
    /\ 2 * (Cardinality(S) * value - RatingSum(S, column)) <= Cardinality(S)
    /\ 2 * (RatingSum(S, column) - Cardinality(S) * value) <= Cardinality(S)

HasType(c) == TruthyStr(c.clinic_type)

\* the rows each strategy averages over
ZipPeers(column) ==
    IF HasType(call.clinic) /\ TruthyTag(call.clinic.zip_code)
    THEN { i \in Others : /\ Other(i).id # call.clinic.id
                          /\ Other(i).clinic_type = call.clinic.clinic_type
                          /\ Other(i).zip_code = call.clinic.zip_code
                          /\ Other(i)[column] # None }
    ELSE {}

RatedNearby(column) ==
    IF HasCoordinates(call.clinic)
    THEN { i \in Others : /\ Other(i).id # call.clinic.id
                          /\ Other(i)[column] # None
                          /\ HasCoordinates(Other(i)) }
    ELSE {}

TypePeers(column) ==
    IF HasType(call.clinic)
    THEN { i \in Others : /\ Other(i).clinic_type = call.clinic.clinic_type
                          /\ Other(i)[column] # None }
    ELSE {}

Rated(column) == { i \in Others : Other(i)[column] # None }

\* the result is that of the first strategy that applies
FirstThatApplies(result, column, other_column, proxy_tag, proxy, fallback) ==
    /\ ~result.raised
    /\ IF TruthyNum(call.clinic[other_column])
       THEN result.method = proxy_tag /\ result.value = proxy
       ELSE IF ZipPeers(column) # {}
       THEN /\ result.method = "avg_same_type_zip"
            /\ IsRoundedMean(result.value, ZipPeers(column), column)
       ELSE IF RatedNearby(column) # {}
       THEN /\ result.method = "knn_5_nearest"
            /\ \E S \in SUBSET RatedNearby(column) :
                 /\ NearestOf(S, RatedNearby(column), 5)
                 /\ IsRoundedMean(result.value, S, column)
       ELSE IF TypePeers(column) # {}
       THEN /\ result.method = "avg_citywide_type"
            /\ IsRoundedMean(result.value, TypePeers(column), column)
       ELSE IF Rated(column) # {}
       THEN /\ result.method = "avg_citywide_all"
            /\ IsRoundedMean(result.value, Rated(column), column)
       ELSE result.method = "fallback_default" /\ result.value = fallback

\* C16: impute_google_rating returns the value of the first strategy that
\* applies in the order yelp_proxy (the Yelp rating plus 0.1, at most 5.0),
\* avg_same_type_zip, knn_5_nearest, avg_citywide_type, avg_citywide_all,
\* fallback_default (4.0); impute_yelp_rating does the same with
\* google_proxy (the Google rating minus 0.1, at least 1.0) first and 3.8
\* last.
C16_FirstStrategyThatApplies ==
    /\ GoogleCalled =>
         FirstThatApplies(Val(ret), "google_rating", "yelp_rating", "yelp_proxy",
                          IF call.clinic.yelp_rating = None THEN 0
                          ELSE Min(50, Val(call.clinic.yelp_rating) + 1), 40)
    /\ YelpCalled =>
         FirstThatApplies(Val(ret), "yelp_rating", "google_rating", "google_proxy",
                          IF call.clinic.google_rating = None THEN 0
                          ELSE Max(10, Val(call.clinic.google_rating) - 1), 38)

\* a row with a Yelp rating and with rated peers of its type in its ZIP got
\* its Google rating from the proxy, and the peers' mean would have differed
C16_ProxyBeforePeers ==
    /\ GoogleCalled
    /\ TruthyNum(call.clinic.yelp_rating)
    /\ ZipPeers("google_rating") # {}
    /\ Val(ret).method = "yelp_proxy"
    /\ ~IsRoundedMean(Val(ret).value, ZipPeers("google_rating"), "google_rating")

-----------------------------------------------------------------------------
(* Properties of an imputation run                                         *)

FullRun == call.fn = "run_comprehensive_imputation"
ZipRun == call.fn = "impute_missing_zipcodes"
RunReturned == pc = "returned"
RunOver == pc \in {"returned", "raised"}
RowsBefore == Val(pre).clinics
IdsBefore == QueryAll(RowsBefore, call.include_inactive)

\* C13: No exception leaves run_comprehensive_imputation: whatever the
\* records are, a run that is over has returned its statistics, and a run
\* that writes has committed what it imputed.
C13_RunAlwaysReturns ==
    (FullRun /\ RunOver) =>
        /\ ret # None
        /\ ~call.dry_run => committed = clinics /\ pc = "returned"

\* The run that ends in the except clause leaves the database as it was
RaisedRunRolledBack ==
    pc = "raised" => clinics = RowsBefore /\ committed = RowsBefore /\ ret = None

\* C17: After a run of run_comprehensive_imputation that writes, every
\* ZIP, clinic type, Google rating and Yelp rating that was missing before
\* the run and is set now is the one its imputation function gives on the
\* rows as they were before the run.
FromValuesBefore(i) ==
    /\ ~ValidType(RowsBefore[i].clinic_type) =>
           clinics[i].clinic_type
             = Some(impute_clinic_type(RowsBefore[i], AllClinics(RowsBefore, IdsBefore)).value)
    /\ RowsBefore[i].google_rating = None =>
           \E h \in BOOLEAN :
               clinics[i].google_rating
                 = Some(impute_google_rating(RowsBefore[i], AllClinics(RowsBefore, IdsBefore), h).value)
    /\ RowsBefore[i].yelp_rating = None =>
           \E h \in BOOLEAN :
               clinics[i].yelp_rating
                 = Some(impute_yelp_rating(RowsBefore[i], AllClinics(RowsBefore, IdsBefore), h).value)

C17_ImputedFromValuesBefore ==
    (FullRun /\ RunReturned /\ ~call.dry_run) =>
        \A k \in 1..Len(IdsBefore) : FromValuesBefore(IdsBefore[k])

\* C18: With dry_run=True, at every point of run_comprehensive_imputation
\* and of impute_missing_zipcodes, every row of the session and of the
\* database is as it was before the run.
C18_DryRunChangesNothing ==
    call.dry_run => clinics = RowsBefore /\ committed = RowsBefore

\* a dry run of run_comprehensive_imputation that returned and found a ZIP,
\* a clinic type, a Yelp rating and a rating category to write
C18_DryRunThatImputes ==
    /\ call.dry_run
    /\ RunReturned
    /\ FullRun
    /\ Val(ret).zip_codes_imputed > 0
    /\ Val(ret).clinic_types_imputed > 0
    /\ Val(ret).yelp_ratings_imputed > 0
    /\ Val(ret).rating_categories_updated > 0

\* a dry run of impute_missing_zipcodes that returned and found a ZIP to write
ZipDryRunThatImputes ==
    call.dry_run /\ RunReturned /\ ZipRun /\ Val(ret).imputation_details # << >>

\* C19: The statistics a run returns are those the run with the other
\* value of dry_run returns on the same table.
OtherRun ==
    IF FullRun
    THEN run_comprehensive_imputation(RowsBefore, ~call.dry_run, call.include_inactive,
                                      call.half_up)
    ELSE impute_missing_zipcodes(RowsBefore, ~call.dry_run)

C19_DryRunSameStatistics ==
    RunReturned => ~OtherRun.raised /\ Val(ret) = OtherRun.stats

\* C20: The imputation_details that run_comprehensive_imputation returns
\* holds one event for every value the run imputed: as many as the
\* per-attribute counts add up to.
C20_OneEventPerImputation ==
    (FullRun /\ RunReturned) =>
        Len(Val(ret).imputation_details)
          = Val(ret).zip_codes_imputed + Val(ret).clinic_types_imputed
            + Val(ret).google_ratings_imputed + Val(ret).yelp_ratings_imputed

\* impute_missing_zipcodes does keep one detail for every ZIP it accepts
ZipRunDetailPerImputation ==
    (ZipRun /\ RunReturned /\ ~call.dry_run) =>
        Len(Val(ret).imputation_details) = Val(ret).imputed

\* The rows a run loads, and their ratings once the run is over
Loaded == { RunIds[k] : k \in 1..Len(RunIds) }
AllRows == 1..Len(clinics)
NearestTenth(value, ratings) ==
    /\ 2 * (Len(ratings) * value - Sum(ratings)) <= Len(ratings)
    /\ 2 * (Sum(ratings) - Len(ratings) * value) <= Len(ratings)
IsMeanOfRatings(i) ==
    /\ clinics[i].combined_rating # None
    /\ NearestTenth(Val(clinics[i].combined_rating), ProviderRatings(clinics[i]))
LabelOf(tenths) ==
    IF tenths >= 40 THEN "Excellent (4.0+)"
    ELSE IF tenths >= 35 THEN "Good (3.5-4.0)"
    ELSE IF tenths >= 25 THEN "Medium (2.5-3.5)"
    ELSE "Low (0-2.5)"
Recomputed(i) ==
    /\ IsMeanOfRatings(i)
    /\ clinics[i].rating_category = Some(LabelOf(Val(clinics[i].combined_rating)))
LabelChanged == { i \in Loaded : RowsBefore[i].rating_category # clinics[i].rating_category }

\* C21 as stated: after a run of run_comprehensive_imputation that writes,
\* every record of the table with a provider rating has the rounded mean of
\* its ratings as combined_rating and the label of that value as
\* rating_category.
C21_EveryRatedRecordRecomputed ==
    (FullRun /\ RunReturned /\ ~call.dry_run) =>
        \A i \in AllRows : ProviderRatings(clinics[i]) # << >> => Recomputed(i)

\* C21, amended: after a run of run_comprehensive_imputation that writes,
\* every record the run loaded (all records, or the active ones without
\* include_inactive) with a provider rating has the rounded mean of its
\* ratings as combined_rating and the label of that value as
\* rating_category, and rating_categories_updated is the number of loaded
\* records whose stored label was not that label.
C21_LoadedRecordsRecomputed ==
    (FullRun /\ RunReturned /\ ~call.dry_run) =>
        /\ \A i \in Loaded : ProviderRatings(clinics[i]) # << >> => Recomputed(i)
        /\ Val(ret).rating_categories_updated = Cardinality(LabelChanged)

\* a run that writes, returned, found a stored label that was right and one
\* that was not, and a combined rating on a breakpoint
C21_SomeLabelsKept ==
    /\ FullRun /\ RunReturned /\ ~call.dry_run
    /\ \E i \in Loaded : RowsBefore[i].rating_category # None /\ i \notin LabelChanged
    /\ \E i \in Loaded : i \in LabelChanged /\ clinics[i].combined_rating = Some(40)

-----------------------------------------------------------------------------
(* Properties of the store under enrichment                                *)

\* the provider ratings of a row that are not null, in hundredths
NonNullRatings(c) ==
    { 10 * Val(c[column]) : column \in { k \in {"google_rating", "yelp_rating"} : c[k] # None } }

\* C22: In every state, the combined_rating of each row, when it is not
\* null, lies between the least and the greatest of the row's non-null
\* provider ratings.
C22_CombinedWithinRatings ==
    \A i \in 1..Len(clinics) :
        clinics[i].combined_rating # None =>
            /\ \E r \in NonNullRatings(clinics[i]) : r <= Val(clinics[i].combined_rating)
            /\ \E r \in NonNullRatings(clinics[i]) : r >= Val(clinics[i].combined_rating)

\* Right after enrich_all_clinics the active rows do satisfy it
EnrichedWithinRatings ==
    [][EnrichAllClinics =>
         \A i \in 1..Len(clinics) :
             (clinics'[i].is_active /\ clinics'[i].combined_rating # None) =>
                 /\ \E r \in NonNullRatings(clinics'[i]) : r <= Val(clinics'[i].combined_rating)
                 /\ \E r \in NonNullRatings(clinics'[i]) : r >= Val(clinics'[i].combined_rating)]_vars

-----------------------------------------------------------------------------
(* Properties of Yelp ingestion interleaved with dedup                     *)

\* a step of match_or_create_clinic for the listing business_id
Sighting(business_id) ==
    /\ pc = "idle" /\ pc' = "save_reviews"
    /\ Val(pending').business_id = Some(business_id)

\* no row leaves the table and every row keeps its id
NoRowDeleted ==
    /\ Len(clinics') >= Len(clinics)
    /\ \A i \in 1..Len(clinics) : clinics'[i].id = clinics[i].id

\* C24: Over any sequence of Yelp ingestions interleaved with dedup passes,
\* a Yelp business id causes the creation of at most one row: a sighting of
\* an id that a row was created for before changes an existing row and
\* appends none; and no step removes a row from the table.
C24_OneRowPerListing ==
    [][/\ NoRowDeleted
       /\ \A business_id \in DOMAIN added :
            Sighting(business_id) =>
              /\ Len(clinics') = Len(clinics)
              /\ Val(pending').clinic_id \in 1..Len(clinics)
              /\ added'[business_id] = 1]_vars

\* The second half on its own: no step removes a row or changes its id
RowsNeverDeleted == [][NoRowDeleted]_vars

-----------------------------------------------------------------------------
(* Properties of the grouping of find_and_merge_duplicates                 *)

PositionIn(seq, x) == CHOOSE k \in 1..Len(seq) : seq[k] = x

\* the groups that hold the row, among those built from all_clinics
GroupsOf(groups, id) == { k \in 1..Len(groups) : id \in Range(groups[k]) }

\* the rows in the groups built before group k
AssignedBefore(groups, k) == UNION { Range(groups[j]) : j \in 1..(k - 1) }

IsPartition(groups, all_clinics) ==
    /\ \A id \in Range(all_clinics) : Cardinality(GroupsOf(groups, id)) = 1
    /\ \A k \in 1..Len(groups) :
         /\ Range(groups[k]) \subseteq Range(all_clinics)
         /\ Cardinality(Range(groups[k])) = Len(groups[k])

SeededByEarliest(groups, all_clinics) ==
    \A k \in 1..Len(groups) : \A m \in 2..Len(groups[k]) :
        /\ PositionIn(all_clinics, groups[k][1]) < PositionIn(all_clinics, groups[k][m])
        /\ groups[k][m] \notin AssignedBefore(groups, k)
        /\ calculate_match_score(clinics[groups[k][1]], clinics[groups[k][m]]).is_match

\* C25: In every state and for every order in which the query can return
\* the active rows, the groups that find_and_merge_duplicates builds (those
\* of one row included) partition the active rows; the first row of a group
\* comes before its other members in the order, and every other member was
\* in no earlier group and matches the first row.
C25_GroupsPartitionActive ==
    \A all_clinics \in Orders(ActiveClinics) :
        /\ IsPartition(Groups(all_clinics, 1, {}), all_clinics)
        /\ SeededByEarliest(Groups(all_clinics, 1, {}), all_clinics)

\* find_and_merge_duplicates has built a group of two rows or more and left
\* an active row in a group of its own
C25_GroupAndSingleton ==
    /\ pc = "merge"
    /\ ranked = << >>
    /\ merge_groups # << >>
    /\ \E id \in ActiveClinics : \A k \in 1..Len(merge_groups) : id \notin Range(merge_groups[k])

\* a matches b, b matches c and a does not match c
Chain(a, b, c) ==
    /\ a # b /\ b # c /\ a # c
    /\ calculate_match_score(clinics[a], clinics[b]).is_match
    /\ calculate_match_score(clinics[b], clinics[c]).is_match
    /\ ~calculate_match_score(clinics[a], clinics[c]).is_match

\* C26 as stated: for any three active rows a, b, c where a matches b, b
\* matches c and a does not match c, the three rows are in one group,
\* whatever the order of the active rows.
C26_ChainInOneGroup ==
    \A all_clinics \in Orders(ActiveClinics) :
      \A a, b, c \in ActiveClinics :
        Chain(a, b, c) =>
          /\ GroupsOf(Groups(all_clinics, 1, {}), a) = GroupsOf(Groups(all_clinics, 1, {}), b)
          /\ GroupsOf(Groups(all_clinics, 1, {}), b) = GroupsOf(Groups(all_clinics, 1, {}), c)

\* C26: for any three active rows a, b, c where a matches b, b matches c
\* and a does not match c: when b is the first row of the order the three
\* rows are in one group, the first; when a is the first row of the order
\* the first group holds a and b and not c.
C26_ChainedThroughFirstRow ==
    \A all_clinics \in Orders(ActiveClinics) :
      \A a, b, c \in ActiveClinics :
        Chain(a, b, c) =>
          /\ all_clinics[1] = b =>
                {a, b, c} \subseteq Range(Groups(all_clinics, 1, {})[1])
          /\ all_clinics[1] = a =>
                /\ {a, b} \subseteq Range(Groups(all_clinics, 1, {})[1])
                /\ c \notin Range(Groups(all_clinics, 1, {})[1])

\* find_and_merge_duplicates met such a chain with the middle row first and
\* built one group of the three rows
C26_ChainGrouped ==
    /\ pc = "merge"
    /\ ranked = << >>
    /\ Len(merge_groups) = 1
    /\ Len(merge_groups[1]) = 3
    /\ Chain(merge_groups[1][2], merge_groups[1][1], merge_groups[1][3])

InactiveClinics == { i \in 1..Len(clinics) : ~clinics[i].is_active }

\* C28: On a DataCleaner that starts with both counters at 0 and a store
\* whose rows are all active, whenever find_and_merge_duplicates has
\* completed, records_merged equals duplicates_found and both equal the
\* number of rows deactivated so far (only the merge deactivates a row, so
\* for each pass that is the active rows before it minus those after it);
\* no step decreases a counter, and a later pass adds to them.
C28_CountersAgree ==
    [][/\ records_merged' >= records_merged
       /\ duplicates_found' >= duplicates_found
       /\ pc # "dup_deactivate" => InactiveClinics' = InactiveClinics
       /\ Ready' =>
            /\ records_merged' = duplicates_found'
            /\ records_merged' = Cardinality(InactiveClinics')]_vars

\* a pass has completed and two rows were merged away, in one group of
\* three or in two passes
C28_TwoMerged ==
    /\ pc = "merged"
    /\ merge_groups = << >>
    /\ records_merged = 2
    /\ duplicates_found = 2

\* find_and_merge_duplicates has merged its last group and returned
PassCompleted == pc = "merged" /\ merge_groups = << >>

\* C29: when a pass of find_and_merge_duplicates has completed, a second
\* pass run directly on its result builds no group of two rows or more,
\* whatever the order of the active rows: it finds no duplicate and
\* deactivates no row.
C29_SecondPassFindsNothing ==
    PassCompleted =>
      \A all_clinics \in Orders(ActiveClinics) :
        MergeGroups(Groups(all_clinics, 1, {})) = << >>

-----------------------------------------------------------------------------
(* Properties of the keyword tables                                        *)

Inferred == call.fn \in {"infer_clinic_type_from_name", "infer_clinic_type_from_categories"}
                /\ ret # None

\* no keyword of a later entry of the table contains a keyword of an
\* earlier entry
NothingShadowed(table) ==
    \A i, j \in 1..Len(table) :
        i < j =>
          \A k \in 1..Len(table[i].keywords) : \A l \in 1..Len(table[j].keywords) :
              ~Contains(table[j].keywords[l], table[i].keywords[k])

\* C30: In the keyword tables of infer_clinic_type_from_name and
\* infer_clinic_type_from_categories no keyword of a later category
\* contains a keyword of an earlier category, and a name (or tag list) made
\* of a keyword alone, or of a plain word and the keyword, yields the
\* keyword's own category.
C30_OwnCategoryReturned ==
    Inferred =>
      /\ NothingShadowed(type_keywords)
      /\ NothingShadowed(category_mapping)
      /\ Val(ret) = Some(call.clinic_type)

\* What does hold: the function returns a category of an entry that is not
\* after the keyword's own, and its own exactly when no keyword of an
\* earlier entry is inside the keyword
EarlierOrOwnCategory ==
    Inferred =>
      LET table == IF call.fn = "infer_clinic_type_from_name"
                   THEN type_keywords ELSE category_mapping
          own == CHOOSE i \in 1..Len(table) : table[i].type = call.clinic_type
      IN /\ \E i \in 1..own : Val(ret) = Some(table[i].type)
         /\ Val(ret) = Some(call.clinic_type) <=>
               \A i \in 1..(own - 1) : \A k \in 1..Len(table[i].keywords) :
                   ~Contains(call.keyword, table[i].keywords[k])

-----------------------------------------------------------------------------
(* Properties of normalize_name                                            *)

\* C23: normalize_name applied to its own result gives that result again,
\* for every name, and an absent name gives the empty string.
C23_NormalizeNameIdempotent ==
    ret # None =>
        /\ normalize_name(Some(Val(ret))) = Val(ret)
        /\ call.name = None => Val(ret) = << >>

\* a noise word that only the removal of punctuation sets apart
C23_NoiseWordExposed ==
    /\ ret # None
    /\ call.name = Some(<<"A", "t", "-", "x">>)
    /\ Val(ret) = <<"x">>

-----------------------------------------------------------------------------
(* Properties of a merge                                                   *)

\* _merge_clinic_group has just returned
Merged == pc = "merged" /\ pre # None

\* the rows of the group, and a row as it was when the call began
GroupIds == { Val(pre).group[k] : k \in 1..Len(Val(pre).group) }
Before(i) == Val(pre).clinics[i]

Survivors == { i \in GroupIds : clinics[i].is_active }
Losers == { i \in GroupIds : ~clinics[i].is_active }

ProviderIds == {"google_place_id", "yelp_business_id"}

\* C1: after _merge_clinic_group has merged a group of two or more rows,
\* exactly one row of the group is active, every other row of the group is
\* inactive with google_place_id and yelp_business_id both null, and every
\* review that pointed at a deactivated row points at the survivor.
C1_OneSurvivor ==
    Merged =>
      /\ Cardinality(Survivors) = 1
      /\ \A i \in GroupIds \ Survivors :
           /\ ~clinics[i].is_active
           /\ clinics[i].google_place_id = None
           /\ clinics[i].yelp_business_id = None
      /\ \A r \in DOMAIN Val(pre).reviews :
           Val(pre).reviews[r] \in Losers => r \in DOMAIN reviews /\ reviews[r] \in Survivors

\* a group of three has been merged; two rows that held a provider id are
\* deactivated and their reviews have moved
C1_TwoLosers ==
    /\ Merged
    /\ Cardinality(GroupIds) = 3
    /\ Cardinality({ i \in Losers : \E f \in ProviderIds : Before(i)[f] # None }) = 2
    /\ Cardinality({ r \in DOMAIN reviews : Val(pre).reviews[r] # reviews[r] }) = 2

\* the completeness score as documented: 10 for each provider id, 5 for each
\* provider rating, 3 for a phone, 3 for a website, 2 for an address
Completeness(c) ==
      Points(c.google_place_id # None, 10) + Points(c.yelp_business_id # None, 10)
    + Points(c.google_rating # None, 5) + Points(c.yelp_rating # None, 5)
    + Points(c.phone # None, 3) + Points(c.website # None, 3)
    + Points(c.address # None, 2)

\* C9: the survivor of a merge has the highest completeness score of its
\* group, scored on the rows as they were before the merge, and of the rows
\* with that score it is the earliest in the order of the group.
C9_SurvivorMostComplete ==
    Merged =>
      \A s \in Survivors :
        \E p \in 1..Len(Val(pre).group) :
          /\ Val(pre).group[p] = s
          /\ \A k \in 1..Len(Val(pre).group) :
               /\ Completeness(Before(Val(pre).group[k])) <= Completeness(Before(s))
               /\ k < p => Completeness(Before(Val(pre).group[k])) < Completeness(Before(s))

\* the survivor is not the first row of its group, and a later row of the
\* group has the same score
C9_TieBehindSurvivor ==
    /\ Merged
    /\ \E p, k \in 1..Len(Val(pre).group) :
         /\ 1 < p /\ p < k
         /\ Val(pre).group[p] \in Survivors
         /\ Completeness(Before(Val(pre).group[k])) = Completeness(Before(Val(pre).group[p]))

\* the value of column f of the first of the rows ids that had one
RECURSIVE FirstPresent(_, _)
FirstPresent(ids, f) ==
    IF ids = << >> THEN None
    ELSE IF Before(Head(ids))[f] # None THEN Before(Head(ids))[f]
    ELSE FirstPresent(Tail(ids), f)

\* the survivor's own value if it had one, else the first loser's in rank order
Inherited(f) ==
    IF Before(ranked[1])[f] # None THEN Before(ranked[1])[f]
    ELSE FirstPresent(Tail(ranked), f)

GapFields == {"phone", "website", "address", "zip_code", "latitude", "longitude",
              "google_place_id", "yelp_business_id"}

ProviderColumns(p) ==
    IF p = "google_place_id"
    THEN [id |-> "google_place_id", rating |-> "google_rating", count |-> "google_review_count"]
    ELSE [id |-> "yelp_business_id", rating |-> "yelp_rating", count |-> "yelp_review_count"]

\* the review count a row brought to the merge for provider p; a row without
\* a rating for p brings none and ranks below every row that has one
CountBefore(i, p) ==
    IF TruthyNum(Before(i)[ProviderColumns(p).rating])
    THEN Val(Before(i)[ProviderColumns(p).count])
    ELSE -1

\* the positions in rank order of the rows that held an id of provider p
Holders(p) == { k \in 1..Len(ranked) : TruthyTag(Before(ranked[k])[p]) }

\* the holder with the highest review count, the one ranked first among equals
TopHolder(p) ==
    CHOOSE k \in Holders(p) :
        \A j \in Holders(p) :
            \/ CountBefore(ranked[j], p) < CountBefore(ranked[k], p)
            \/ CountBefore(ranked[j], p) = CountBefore(ranked[k], p) /\ k <= j

\* C11: when the survivor and a loser both held an id of a provider, the
\* survivor's rating and review count for that provider after the merge are
\* the rating and the count that one and the same row brought: the row with
\* the higher review count, the survivor itself (the first in rank order)
\* when the counts are equal.
C11_PairOfHigherCount ==
    Merged =>
      \A p \in ProviderIds :
        (1 \in Holders(p) /\ Holders(p) # {1}) =>
          /\ clinics[ranked[1]][ProviderColumns(p).rating]
               = Before(ranked[TopHolder(p)])[ProviderColumns(p).rating]
          /\ clinics[ranked[1]][ProviderColumns(p).count]
               = Before(ranked[TopHolder(p)])[ProviderColumns(p).count]

\* the survivor took the pair of a loser with more reviews, and in another
\* merge kept its own against a loser with as many
C11_LoserPairTaken ==
    /\ Merged
    /\ \E p \in ProviderIds :
         /\ 1 \in Holders(p)
         /\ TopHolder(p) # 1
         /\ CountBefore(ranked[TopHolder(p)], p) > CountBefore(ranked[1], p)
         /\ CountBefore(ranked[1], p) >= 0
         /\ clinics[ranked[1]][ProviderColumns(p).rating]
              # Before(ranked[1])[ProviderColumns(p).rating]

\* The run has ended: the loop is through, or an exception has left it
RunEnded == pc = "raised" \/ (pc = "merged" /\ merge_groups = << >>)

\* the group that was being merged when the exception was raised
FailedGroup == Head(merge_groups)

GroupMerged(g) ==
    \E k \in 1..Len(g) :
        /\ clinics[g[k]].is_active
        /\ \A j \in 1..Len(g) : j # k => ~clinics[g[j]].is_active

GroupUntouched(g) ==
    /\ \A k \in 1..Len(g) : clinics[g[k]] = Val(pre).clinics[g[k]]
    /\ \A r \in DOMAIN reviews : Val(pre).reviews[r] \in Range(g) => reviews[r] = Val(pre).reviews[r]

\* C12: when a write fails while one group is being merged, none of that
\* group's field adoptions, review re-pointings and deactivations persist,
\* and every other group of the same run has been merged when the run ends.
C12_OtherGroupsStillMerged ==
    pc = "raised" =>
      /\ GroupUntouched(FailedGroup)
      /\ \A n \in 1..Len(RunGroups) :
           RunGroups[n] # FailedGroup => GroupMerged(RunGroups[n])

\* the part of C12 the code has: the failed group is as it was, and the
\* groups merged before it stay merged
C12_FailedGroupRolledBack ==
    pc = "raised" =>
      /\ GroupUntouched(FailedGroup)
      /\ \A n \in 1..Len(RunGroups) :
           (\A k \in 1..Len(merge_groups) : merge_groups[k] # RunGroups[n])
             => GroupMerged(RunGroups[n])

-----------------------------------------------------------------------------
(* Properties of the store                                                 *)

Rows == 1..Len(clinics)

\* C2: in every state of the store, no two rows hold the same non-null
\* yelp_business_id and no two rows hold the same non-null google_place_id.
C2_ProviderIdsUnique ==
    \A i, j \in Rows : \A f \in ProviderIds :
      (i # j /\ clinics[i][f] # None) => clinics[i][f] # clinics[j][f]

\* the flush in the middle of a merge: the primary holds the Yelp id that
\* the duplicate held when the merge began
C2_IdHandedOver ==
    /\ pc = "dup_reviews"
    /\ Before(ranked[dup_index]).yelp_business_id # None
    /\ clinics[ranked[1]].yelp_business_id = Before(ranked[dup_index]).yelp_business_id

\* C3: an inactive row is left out of all matching: it is in no group of a
\* dedup pass and in no candidate pool of match_or_create_clinic, and both
\* its provider ids stay null.
C3_InactiveLeftOut ==
    \A i \in Rows :
      ~clinics[i].is_active =>
        /\ clinics[i].google_place_id = None
        /\ clinics[i].yelp_business_id = None
        /\ \A k \in 1..Len(potential_matches) : potential_matches[k] # i
        /\ pc = "merge" =>
             \A g \in 1..Len(merge_groups) :
               \A k \in 1..Len(merge_groups[g]) : merge_groups[g][k] # i

\* C4: every review refers to an active row, in every state; within a
\* merge, the reviews of a duplicate are re-pointed before it is deactivated.
C4_ReviewsOnActiveRows ==
    \A r \in DOMAIN reviews :
      reviews[r] \in Rows /\ clinics[reviews[r]].is_active

\* C5 as stated: every provider id that a loser held is held by the survivor
\* after the merge.
C5_EveryLoserIdMigrates ==
    Merged =>
      \A i \in Losers : \A f \in ProviderIds :
        Before(i)[f] # None => \E s \in Survivors : clinics[s][f] = Before(i)[f]

\* C5: a provider id that a loser held is held by the survivor after the
\* merge exactly when neither the survivor nor a loser ranked before it held
\* an id of that provider; otherwise no row holds it after the merge.
C5_LoserIdMigratesIfVacant ==
    Merged =>
      \A f \in ProviderIds :
        /\ clinics[ranked[1]][f] = Inherited(f)
        /\ \A i \in Losers :
             (Before(i)[f] # None /\ Before(i)[f] # Inherited(f)) =>
               \A j \in Rows : clinics[j][f] # Before(i)[f]

\* the survivor had no Yelp id and holds the one a loser had
C5_Migrated ==
    /\ Merged
    /\ Before(ranked[1]).yelp_business_id = None
    /\ \E i \in Losers :
         /\ Before(i).yelp_business_id # None
         /\ clinics[ranked[1]].yelp_business_id = Before(i).yelp_business_id

====
